---- MODULE Spec2Model ----
(***************************************************************************)
(* Model of the document-to-Markdown conversion layer of the file          *)
(* converter: the Image Store (utils/image_handler.py), the styled-        *)
(* document parser (converters/docx_converter.py), the syndication-export  *)
(* parser (converters/wxr_converter.py) and the batch loop that drives     *)
(* them (app.py).                                                          *)
(*                                                                         *)
(* Strings the code builds (filenames, image references) are sequences of  *)
(* one-character strings, so that formatting and parsing are computed.     *)
(* Image bytes are named byte strings ("rawA", "optA", ...).               *)
(*                                                                         *)
(* Three specifications share the variables:                               *)
(*   SpecStore  one Image Store driven through its public operations;      *)
(*   Spec       a caller converting a batch of files one after the other;  *)
(*   SpecConc   two sessions converting concurrently through the cached,   *)
(*              shared parser instance of app.get_converters.              *)
(***************************************************************************)
EXTENDS Integers, Sequences, FiniteSets, TLC

VARIABLES
    stores,            \* store id -> ImageHandler state
    docx,              \* the DocxConverter instance
    wxr,               \* the WxrConverter instance
    batch,             \* the files handed to the caller, in order
    idx,               \* index of the file being converted (1-based)
    pc,                \* the caller's position
    cursor,            \* position inside the current file's loop
    markdown_lines,    \* image lines emitted for the current file
    converted_files,   \* results of the calls that returned
    errors,            \* calls that raised
    saveLog,           \* observation: every save_image call and its result
    callLog,           \* observation: Image Store calls of the running conversion
    snapshot,          \* observation: last value returned by get_all_images
    lastResult,        \* observation: last value optimize_image / download_image returned
    thr,               \* SpecConc: the two session threads
    attempted          \* observation: the loop iterations begun, in order

vars == << stores, docx, wxr, batch, idx, pc, cursor, markdown_lines,
           converted_files, errors, saveLog, callLog, snapshot, lastResult, thr,
           attempted >>

(***************************************************************************)
(* Bounds                                                                  *)
(***************************************************************************)
MaxSaves == 2
MaxBatch == 2

(***************************************************************************)
(* Character strings                                                       *)
(***************************************************************************)
DigitChars == << "0", "1", "2", "3", "4", "5", "6", "7", "8", "9" >>

HexChars == { "0", "1", "2", "3", "4", "5", "6", "7", "8", "9",
              "a", "b", "c", "d", "e", "f" }

Range(f) == { f[x] : x \in DOMAIN f }

\* str(n) for a non-negative integer, as the f-string formats it
RECURSIVE DecStr(_)
DecStr(n) ==
    IF n < 10 THEN << DigitChars[n + 1] >>
    ELSE DecStr(n \div 10) \o << DigitChars[(n % 10) + 1] >>

DigitValue(c) == CHOOSE d \in 0..9 : DigitChars[d + 1] = c

\* int(s) for a non-empty string of digits
RECURSIVE DecValue(_)
DecValue(s) ==
    IF Len(s) = 1 THEN DigitValue(s[1])
    ELSE 10 * DecValue(SubSeq(s, 1, Len(s) - 1)) + DigitValue(s[Len(s)])

LastIndexOf(s, c) ==
    LET hits == { i \in 1..Len(s) : s[i] = c }
    IN  IF hits = {} THEN 0 ELSE CHOOSE i \in hits : \A j \in hits : j <= i

StartsWith(s, p) == Len(s) >= Len(p) /\ SubSeq(s, 1, Len(p)) = p

PfxImage == << "i", "m", "a", "g", "e" >>
PfxDocx == << "d", "o", "c", "x", "_", "i", "m", "g" >>
PfxWxr == << "w", "x", "r", "_", "i", "m", "g" >>
ExtJpg == << "j", "p", "g" >>
ExtPng == << "p", "n", "g" >>
ExtGif == << "g", "i", "f" >>
AssetsDir == << "a", "s", "s", "e", "t", "s", "/" >>

(***************************************************************************)
(* Image bytes and their digest                                            *)
(***************************************************************************)
\* Byte strings: three source images, and what optimize_image can produce.
Bytes == { "rawA", "rawB", "rawC", "rawL", "optA", "optL" }

\* hashlib.md5(image_data).hexdigest()[:8]: a function of the bytes with a
\* 32-bit range, so two different byte strings can share it ("rawB", "optL").
Md5Hex8(image_data) ==
    CASE image_data = "rawA" -> << "c", "3", "5", "a", "3", "8", "6", "b" >>
      [] image_data = "rawB" -> << "7", "1", "e", "f", "3", "a", "a", "b" >>
      [] image_data = "rawC" -> << "0", "9", "f", "1", "2", "2", "c", "4" >>
      [] image_data = "rawL" -> << "2", "0", "4", "3", "f", "c", "2", "6" >>
      [] image_data = "optA" -> << "4", "d", "5", "2", "b", "1", "4", "0" >>
      [] image_data = "optL" -> << "7", "1", "e", "f", "3", "a", "a", "b" >>

(***************************************************************************)
(* Image Store (ImageHandler)                                              *)
(***************************************************************************)
EmptyMap == [ k \in {} |-> << >> ]

Put(m, k, v) == [ x \in DOMAIN m \cup {k} |-> IF x = k THEN v ELSE m[x] ]

\* ImageHandler.__init__
NewStore == [ images |-> EmptyMap, image_data |-> EmptyMap, image_counter |-> 0 ]

\* f"{prefix}_{self.image_counter}_{image_hash}.{ext}"
FormatFilename(prefix, counter, image_hash, ext) ==
    prefix \o << "_" >> \o DecStr(counter) \o << "_" >> \o image_hash
        \o << "." >> \o ext

\* save_image without the hash check: every call allocates
SaveImageNoDedup(s, image_data, ext, prefix) ==
    LET image_hash == Md5Hex8(image_data)
        counter == s.image_counter + 1
        filename == FormatFilename(prefix, counter, image_hash, ext)
    IN  [ store |-> [ images |-> Put(s.images, image_hash, filename),
                      image_data |-> Put(s.image_data, image_hash, image_data),
                      image_counter |-> counter ],
          filename |-> filename ]

\* save_image without "self.image_counter += 1"
SaveImageNoIncrement(s, image_data, ext, prefix) ==
    LET image_hash == Md5Hex8(image_data)
        counter == s.image_counter
        filename == FormatFilename(prefix, counter, image_hash, ext)
    IN  IF image_hash \in DOMAIN s.images
        THEN [ store |-> s, filename |-> s.images[image_hash] ]
        ELSE [ store |-> [ images |-> Put(s.images, image_hash, filename),
                           image_data |-> Put(s.image_data, image_hash, image_data),
                           image_counter |-> counter ],
               filename |-> filename ]

\* ImageHandler.save_image: the new store state and the returned filename
SaveImage(s, image_data, ext, prefix) ==
    LET image_hash == Md5Hex8(image_data)
    IN  IF image_hash \in DOMAIN s.images
        THEN [ store |-> s, filename |-> s.images[image_hash] ]
        ELSE LET counter == s.image_counter + 1
                 filename == FormatFilename(prefix, counter, image_hash, ext)
             IN  [ store |-> [ images |-> Put(s.images, image_hash, filename),
                               image_data |-> Put(s.image_data, image_hash, image_data),
                               image_counter |-> counter ],
                   filename |-> filename ]

\* ImageHandler.get_all_images: a copy of the hash -> filename map
GetAllImages(s) == s.images

\* reset without "self.image_counter = 0"
ResetStoreKeepCounter(s) ==
    [ images |-> EmptyMap, image_data |-> EmptyMap, image_counter |-> s.image_counter ]

\* ImageHandler.reset
ResetStore(s) == NewStore

(***************************************************************************)
(* optimize_image                                                          *)
(***************************************************************************)
\* The images a document or a server can hold.
RawImages == { "rawA", "rawB", "rawC", "rawL" }

\* Further bytes optimize_image can be given: images with a transparent and
\* a half-transparent pixel, a grey image with alpha, a palette image, an
\* image wider than max_width, an image cut off after its header.
OptimizeInputs == RawImages \cup { "rawT", "rawH", "rawLA", "rawP", "rawW", "rawX" }

\* The bytes img.save can write.
EncodedImages == { "optA", "optL", "optW", "optH", "optK", "optP", "optR" }

MaxWidth == 1200

Picture(mode, width, height, pixel) ==
    [ mode |-> mode, width |-> width, height |-> height, pixel |-> pixel ]

\* Image.open succeeds ("rawB" is not an image PIL can read)
Decodable(image_data) == image_data \in (OptimizeInputs \cup EncodedImages) \ { "rawB" }

\* the pixel data can be read ("rawX" ends after its header: the first
\* operation on its pixels raises OSError)
Loadable(image_data) == Decodable(image_data) /\ image_data # "rawX"

\* img.mode of the opened image
ImageMode(image_data) ==
    CASE image_data \in { "rawA", "rawW", "rawX", "optA", "optW", "optH", "optK", "optP", "optR" } -> "RGB"
      [] image_data \in { "rawC", "rawT", "rawH" } -> "RGBA"
      [] image_data \in { "rawL", "optL" } -> "L"
      [] image_data = "rawLA" -> "LA"
      [] image_data = "rawP" -> "P"

\* Image.open: the picture the bytes hold, all of one colour (a palette
\* image's pixel is its colour in the palette); "rawC" is "rawA" with an
\* opaque alpha channel
OpenImage(image_data) ==
    LET pixel == CASE image_data \in { "rawA", "rawW", "rawX", "optA", "optR" } -> << 200, 100, 50 >>
                   [] image_data = "rawC" -> << 200, 100, 50, 255 >>
                   [] image_data = "rawT" -> << 0, 0, 0, 0 >>
                   [] image_data = "rawH" -> << 0, 0, 0, 128 >>
                   [] image_data \in { "rawL", "optL" } -> << 128 >>
                   [] image_data = "rawLA" -> << 0, 0 >>
                   [] image_data \in { "rawP", "optP" } -> << 10, 20, 30 >>
                   [] image_data = "optW" -> << 255, 255, 255 >>
                   [] image_data = "optH" -> << 127, 127, 127 >>
                   [] image_data = "optK" -> << 0, 0, 0 >>
        size == CASE image_data = "rawW" -> << 2400, 1000 >>
                  [] image_data = "optR" -> << 1200, 500 >>
                  [] OTHER -> << 800, 600 >>
    IN  Picture(ImageMode(image_data), size[1], size[2], pixel)

\* the format of bytes written by img.save
ImageFormat(image_data) == IF image_data = "optL" THEN "PNG" ELSE "JPEG"

\* background.paste(img, mask=img.split()[3]) on a white RGB background:
\* each channel is (white * (255 - mask) + channel * mask) / 255, rounded
PasteOnWhite(img) ==
    LET mask == img.pixel[4]
        blend(channel) ==
            LET tmp == 255 * (255 - mask) + channel * mask + 128
            IN  ((tmp \div 256) + tmp) \div 256
    IN  Picture("RGB", img.width, img.height,
                << blend(img.pixel[1]), blend(img.pixel[2]), blend(img.pixel[3]) >>)

\* img.convert("RGB"): grey becomes three equal channels, a palette index
\* its colour, and an alpha channel is left out
ConvertRgb(img) ==
    Picture("RGB", img.width, img.height,
            IF img.mode \in { "L", "LA" }
            THEN << img.pixel[1], img.pixel[1], img.pixel[1] >>
            ELSE SubSeq(img.pixel, 1, 3))

\* img.resize((max_width, int(img.height * ratio)), LANCZOS) when
\* img.width > max_width (the sizes of the inputs make ratio exact)
ResizeImage(img) ==
    IF img.width > MaxWidth
    THEN Picture(img.mode, MaxWidth, (img.height * MaxWidth) \div img.width, img.pixel)
    ELSE img

\* img.save(output, format=img_format, ...): the bytes that hold img
EncodeImage(img, img_format) ==
    CHOOSE bytes \in EncodedImages :
        OpenImage(bytes) = img /\ ImageFormat(bytes) = img_format

ExtJpeg == << "j", "p", "e", "g" >>

\* optimize_image whose except clause guesses the extension jpeg
OptimizeImageGuessJpeg(image_data) ==
    IF ~Loadable(image_data)
    THEN << image_data, ExtJpeg >>
    ELSE LET opened == OpenImage(image_data)
             flat == IF opened.mode = "RGBA" THEN PasteOnWhite(opened)
                     ELSE IF opened.mode \notin { "RGB", "L" } THEN ConvertRgb(opened)
                     ELSE opened
             img == ResizeImage(flat)
             img_format == IF img.mode = "RGB" THEN "JPEG" ELSE "PNG"
             ext == IF img_format = "JPEG" THEN ExtJpg ELSE ExtPng
         IN  << EncodeImage(img, img_format), ext >>

\* ImageHandler.optimize_image: << optimized bytes, extension >>; every
\* exception of the try block (Image.open on bytes that are no image, a
\* read of pixels that are cut off) ends in the except clause
OptimizeImage(image_data) ==
    IF ~Loadable(image_data)
    THEN << image_data, ExtPng >>
    ELSE LET opened == OpenImage(image_data)
             flat == IF opened.mode = "RGBA" THEN PasteOnWhite(opened)
                     ELSE IF opened.mode \notin { "RGB", "L" } THEN ConvertRgb(opened)
                     ELSE opened
             img == ResizeImage(flat)
             img_format == IF img.mode = "RGB" THEN "JPEG" ELSE "PNG"
             ext == IF img_format = "JPEG" THEN ExtJpg ELSE ExtPng
         IN  << EncodeImage(img, img_format), ext >>

(***************************************************************************)
(* download_image                                                          *)
(***************************************************************************)
UrlA == << "h", "t", "t", "p", ":", "/", "/", "h", "/", "a" >>
UrlB == << "h", "t", "t", "p", ":", "/", "/", "h", "/", "b" >>
UrlC == << "h", "t", "t", "p", ":", "/", "/", "h", "/", "c" >>
Urls == { UrlA, UrlB, UrlC }

\* What the remote server answers when the request succeeds.
RemoteBody(url) ==
    CASE url = UrlA -> "rawA"
      [] url = UrlB -> "rawL"
      [] url = UrlC -> "rawC"

RemoteContentType(url) ==
    CASE url = UrlA -> "image/jpeg"
      [] url = UrlB -> "image/gif"
      [] url = UrlC -> ""

\* How one request can end: the body is read, or urlopen raises.
FetchOutcomes == { "ok", "URLError", "HTTPError", "timeout", "ValueError" }
FetchFailures == FetchOutcomes \ { "ok" }

\* _get_extension_from_content_type
ExtensionFromContentType(content_type) ==
    CASE content_type = "image/jpeg" -> ExtJpg
      [] content_type = "image/jpg" -> ExtJpg
      [] content_type = "image/png" -> ExtPng
      [] content_type = "image/gif" -> ExtGif
      [] OTHER -> ExtPng

\* an except clause that names only the urllib errors
CaughtByDownloadUrllibOnly(exc) == exc \in { "URLError", "HTTPError" }

\* the classes "except (URLError, HTTPError, Exception)" catches
CaughtByDownload(exc) == exc \in { "URLError", "HTTPError", "timeout", "ValueError" }

\* ImageHandler.download_image under one outcome of the request:
\* a (data, ext) value, None, or an exception leaving the method
DownloadImage(url, outcome) ==
    IF outcome = "ok"
    THEN [ kind |-> "value", data |-> RemoteBody(url),
           ext |-> ExtensionFromContentType(RemoteContentType(url)) ]
    ELSE IF CaughtByDownload(outcome)
    THEN [ kind |-> "none" ]
    ELSE [ kind |-> "raise", exc |-> outcome ]

(***************************************************************************)
(* Reading a filename back: prefix_sequence_hash.ext, split from the right *)
(* (the prefixes themselves contain "_").                                  *)
(***************************************************************************)
AllDigits(s) == \A i \in 1..Len(s) : s[i] \in Range(DigitChars)

ParseFilename(f) ==
    LET dot == LastIndexOf(f, ".")
        stem == IF dot > 0 THEN SubSeq(f, 1, dot - 1) ELSE << >>
        n == Len(stem)
        head == IF n >= 9 THEN SubSeq(stem, 1, n - 9) ELSE << >>
        us == LastIndexOf(head, "_")
        digits == IF us > 0 THEN SubSeq(head, us + 1, Len(head)) ELSE << >>
        ok == /\ dot > 0
              /\ n >= 9
              /\ stem[n - 8] = "_"
              /\ us > 0
              /\ Len(digits) > 0
              /\ AllDigits(digits)
    IN  IF ok
        THEN [ ok |-> TRUE,
               prefix |-> SubSeq(head, 1, us - 1),
               digits |-> digits,
               seq |-> DecValue(digits),
               hash |-> SubSeq(stem, n - 7, n),
               ext |-> SubSeq(f, dot + 1, Len(f)) ]
        ELSE [ ok |-> FALSE, prefix |-> << >>, digits |-> << >>, seq |-> -1,
               hash |-> << >>, ext |-> << >> ]

(***************************************************************************)
(* State shared by the specifications                                      *)
(***************************************************************************)
StoreIds == { "storeA", "storeB" }
NoStore == "None"
NoValue == [ kind |-> "none" ]

\* One entry of saveLog: the call, what it returned, whether it allocated.
SaveEvent(who, sid, image_data, ext, prefix, before, r) ==
    [ who |-> who, store |-> sid, data |-> image_data, ext |-> ext,
      prefix |-> prefix, filename |-> r.filename,
      fresh |-> r.store.image_counter # before.image_counter
                \/ r.store.images # before.images ]

\* The parsers as constructed: DocxConverter.__init__, WxrConverter.__init__
NewDocx == [ image_handler |-> NoStore, extracted_images |-> EmptyMap ]
NewWxr == [ image_handler |-> NoStore, downloaded_images |-> EmptyMap ]

(***************************************************************************)
(* SpecStore: one Image Store and its public operations                    *)
(***************************************************************************)
\* What callers pass to save_image: bytes optimize_image returned, with
\* the default prefix or a parser's, and an extension.
SaveBytes == { "optA", "optL", "rawB" }
SavePrefixes == { PfxImage, PfxDocx }
SaveExts == { ExtJpg, ExtPng }

storeVars == << docx, wxr, batch, idx, pc, cursor, markdown_lines,
                converted_files, errors, callLog, thr, attempted >>

InitStore ==
    /\ stores = [ s \in StoreIds |-> NewStore ]
    /\ docx = NewDocx
    /\ wxr = NewWxr
    /\ batch = << >>
    /\ idx = 0
    /\ pc = "api"
    /\ cursor = 0
    /\ markdown_lines = << >>
    /\ converted_files = << >>
    /\ errors = << >>
    /\ saveLog = << >>
    /\ callLog = << >>
    /\ snapshot = EmptyMap
    /\ lastResult = NoValue
    /\ thr = << >>
    /\ attempted = << >>

\* handler.save_image(image_data, ext, prefix)
ApiSave ==
    /\ Len(saveLog) < MaxSaves
    /\ \E image_data \in SaveBytes, ext \in SaveExts, prefix \in SavePrefixes :
          LET before == stores["storeA"]
              r == SaveImage(before, image_data, ext, prefix)
          IN  /\ stores' = [ stores EXCEPT !["storeA"] = r.store ]
              /\ saveLog' = Append(saveLog,
                    SaveEvent("api", "storeA", image_data, ext, prefix, before, r))
    /\ UNCHANGED << snapshot, lastResult >>
    /\ UNCHANGED storeVars

\* handler.get_all_images()
ApiListImages ==
    /\ snapshot' = GetAllImages(stores["storeA"])
    /\ UNCHANGED << stores, saveLog, lastResult >>
    /\ UNCHANGED storeVars

\* handler.optimize_image(image_data)
ApiOptimize ==
    /\ \E image_data \in OptimizeInputs :
          LET r == OptimizeImage(image_data)
          IN  lastResult' = [ kind |-> "value", data |-> r[1], ext |-> r[2],
                              input |-> image_data ]
    /\ UNCHANGED << stores, saveLog, snapshot >>
    /\ UNCHANGED storeVars

\* handler.download_image(url)
ApiDownload ==
    /\ \E url \in Urls, outcome \in FetchOutcomes :
          lastResult' = DownloadImage(url, outcome)
    /\ UNCHANGED << stores, saveLog, snapshot >>
    /\ UNCHANGED storeVars

\* handler.reset(); the observations (saveLog, snapshot, lastResult) hold
\* what was seen since the last reset
ApiReset ==
    /\ stores' = [ stores EXCEPT !["storeA"] = ResetStore(stores["storeA"]) ]
    /\ saveLog' = << >>
    /\ snapshot' = EmptyMap
    /\ lastResult' = NoValue
    /\ UNCHANGED storeVars

NextStore == ApiSave \/ ApiListImages \/ ApiOptimize \/ ApiDownload \/ ApiReset

SpecStore == InitStore /\ [][NextStore]_vars

(***************************************************************************)
(* Claims about the Image Store alone                                      *)
(***************************************************************************)
StoredNames(s) == Range(GetAllImages(s))

\* C1: between two resets, two save calls given identical bytes return the
\* same filename whatever prefix or extension each passes, and that
\* filename is the value of exactly one entry of list_images().
C1_IdempotentDedup ==
    \A i, j \in 1..Len(saveLog) :
        saveLog[i].data = saveLog[j].data =>
            /\ saveLog[i].filename = saveLog[j].filename
            /\ Cardinality({ h \in DOMAIN GetAllImages(stores["storeA"]) :
                   GetAllImages(stores["storeA"])[h] = saveLog[j].filename }) = 1

\* The same bytes were saved twice with a different prefix and extension.
C1_Witness ==
    \E i, j \in 1..Len(saveLog) :
        /\ i < j
        /\ saveLog[i].data = saveLog[j].data
        /\ saveLog[i].prefix # saveLog[j].prefix
        /\ saveLog[i].ext # saveLog[j].ext

\* C2: between two resets, no two stored images share a filename, and each
\* newly allocated filename carries a sequence number strictly greater
\* than every sequence number allocated before it.
C2_UniqueMonotonic ==
    /\ \A h1, h2 \in DOMAIN stores["storeA"].images :
          h1 # h2 => stores["storeA"].images[h1] # stores["storeA"].images[h2]
    /\ \A i, j \in 1..Len(saveLog) :
          (i < j /\ saveLog[i].fresh /\ saveLog[j].fresh) =>
              /\ ParseFilename(saveLog[i].filename).ok
              /\ ParseFilename(saveLog[j].filename).ok
              /\ ParseFilename(saveLog[i].filename).seq
                    < ParseFilename(saveLog[j].filename).seq

\* Two different images were stored one after the other.
C2_Witness ==
    /\ Cardinality(DOMAIN stores["storeA"].images) >= 2
    /\ \E i, j \in 1..Len(saveLog) :
          i < j /\ saveLog[i].fresh /\ saveLog[j].fresh

(***************************************************************************)
(* Spec: a caller (the batch loop of app.main, or a test) converting files *)
(* one after the other on the cached parser instances.  Only what bears on *)
(* images is modelled of a document: its image relationships, the image    *)
(* references of its paragraphs, the <img> elements of its posts.          *)
(***************************************************************************)
Rel(rId, is_image, external, blob) ==
    [ rId |-> rId, is_image |-> is_image, external |-> external, blob |-> blob ]

\* fails: "none", "open" (file.read / Document() raises) or "body" (a
\* library call raises while the body is rendered)
DocxFile(name, fails, rels, paras) ==
    [ name |-> name, type |-> "docx", fails |-> fails, rels |-> rels,
      paras |-> paras, imgs |-> << >> ]

WxrFile(name, fails, imgs) ==
    [ name |-> name, type |-> "wxr", fails |-> fails, rels |-> << >>,
      paras |-> << >>, imgs |-> imgs ]

SampleFiles ==
    { DocxFile("a.docx", "none",
               << Rel("rId1", TRUE, FALSE, "rawA"), Rel("rId2", TRUE, FALSE, "rawB"),
                  Rel("rId3", FALSE, FALSE, "rawL") >>,
               << << "rId1" >>, << "rId2", "rId3" >> >>),
      \* rId2 is embedded by a paragraph but is no image relationship here
      DocxFile("b.docx", "none",
               << Rel("rId1", TRUE, FALSE, "rawC") >>,
               << << "rId2", "rId1" >> >>),
      \* touching the second relationship's target part raises
      DocxFile("c.docx", "body",
               << Rel("rId1", TRUE, FALSE, "rawL"), Rel("rId2", TRUE, TRUE, "rawA"),
                  Rel("rId3", TRUE, FALSE, "rawA") >>,
               << << "rId1", "rId3" >> >>),
      \* two relationships with the same bytes; rId9 is no relationship
      DocxFile("d.docx", "none",
               << Rel("rId1", TRUE, FALSE, "rawA"), Rel("rId2", TRUE, FALSE, "rawA"),
                  Rel("rId3", TRUE, FALSE, "rawC") >>,
               << << "rId1", "rId2" >>, << "rId3", "rId9" >> >>),
      \* a linked image between two embedded ones
      DocxFile("e.docx", "none",
               << Rel("rId1", TRUE, FALSE, "rawL"), Rel("rId2", TRUE, TRUE, "rawA"),
                  Rel("rId3", TRUE, FALSE, "rawA") >>,
               << << "rId1", "rId3" >> >>),
      DocxFile("bad.docx", "open", << >>, << >>),
      WxrFile("a.xml", "none", << UrlA, UrlA >>),
      WxrFile("b.xml", "none", << UrlC, UrlB >>),
      WxrFile("c.xml", "body", << UrlA >>),
      WxrFile("bad.xml", "open", << UrlA >>) }

\* A call convert(file, include_metadata, image_handler): the batch loop
\* always passes its store, a test may pass none.
Calls == { [ file |-> f, image_handler |-> h ] :
             f \in SampleFiles, h \in { "storeA", NoStore } }

RECURSIVE SeqsUpTo(_, _)
SeqsUpTo(S, n) ==
    IF n = 0 THEN { << >> }
    ELSE LET shorter == SeqsUpTo(S, n - 1)
         IN  shorter \cup { Append(q, x) : q \in { t \in shorter : Len(t) = n - 1 }, x \in S }

\* How a request of a conversion can end.
ConvertFetchOutcomes == { "ok", "URLError", "timeout" }

Init ==
    /\ stores = [ s \in StoreIds |-> NewStore ]
    /\ docx = NewDocx
    /\ wxr = NewWxr
    /\ batch \in SeqsUpTo(Calls, MaxBatch) \ { << >> }
    /\ idx = 0
    /\ pc = "loop"
    /\ cursor = 0
    /\ markdown_lines = << >>
    /\ converted_files = << >>
    /\ errors = << >>
    /\ saveLog = << >>
    /\ callLog = << >>
    /\ snapshot = EmptyMap
    /\ lastResult = NoValue
    /\ thr = << >>
    /\ attempted = << >>

Call == batch[idx + 1]
File == batch[idx + 1].file

\* One image line of the output: the path it points at, and as observation
\* the source reference it stands for, how it was resolved, and the file
\* during whose conversion the map entry it came from was recorded.
Line(text, ref, via, origin) ==
    [ text |-> text, ref |-> ref, via |-> via, origin |-> origin ]

\* the reference written without the assets/ folder
AssetRefBare(filename) == filename

\* f"assets/{filename}"
AssetRef(filename) == AssetsDir \o filename

\* an exception that leaves the loop instead of being displayed
RaisedEndsBatch(parser, cause) ==
    /\ errors' = Append(errors, [ idx |-> idx + 1, name |-> File.name,
                                  parser |-> parser, cause |-> cause ])
    /\ idx' = Len(batch)
    /\ pc' = "loop"
    /\ cursor' = 0

\* "raise Exception(f"Error converting ... file: {str(e)}")" reaching the caller
Raised(parser, cause) ==
    /\ errors' = Append(errors, [ idx |-> idx + 1, name |-> File.name,
                                  parser |-> parser, cause |-> cause ])
    /\ idx' = idx + 1
    /\ pc' = "loop"
    /\ cursor' = 0

\* convert returned its Markdown
Returned ==
    /\ converted_files' = Append(converted_files,
          [ idx |-> idx + 1, name |-> File.name, file_type |-> File.type,
            lines |-> markdown_lines ])
    /\ idx' = idx + 1
    /\ pc' = "loop"
    /\ cursor' = 0

\* One entry of callLog: an Image Store call made for the source reference
\* (relationship ID or URL) at the current loop position, how it ended, and
\* the string it returned.
CallEvent(op, ref, outcome, value) ==
    [ op |-> op, ref |-> ref, at |-> cursor, outcome |-> outcome, value |-> value ]

\* What a step inside one file's conversion leaves alone, and what the
\* step that begins a loop iteration leaves alone.
seqIdle == << snapshot, lastResult, thr, batch, attempted >>
beginIdle == << snapshot, lastResult, thr, batch >>

\* app.main, lines 295-299: the loop reaches the next file
Attempt ==
    attempted' = Append(attempted, [ idx |-> idx + 1, name |-> File.name ])

(***************************************************************************)
(* DocxConverter                                                           *)
(***************************************************************************)
\* convert without "self.extracted_images = {}"
DocxEnterKeepMap(d, image_handler) ==
    [ image_handler |-> image_handler, extracted_images |-> d.extracted_images ]

\* convert, lines 27-28: the instance state as processing starts
DocxEnter(d, image_handler) ==
    [ image_handler |-> image_handler, extracted_images |-> EmptyMap ]

\* convert, lines 26-36: take the arguments, reset the map, open the file
DocxBegin ==
    /\ pc = "loop"
    /\ idx < Len(batch)
    /\ File.type = "docx"
    /\ docx' = DocxEnter(docx, Call.image_handler)
    /\ markdown_lines' = << >>
    /\ callLog' = << >>
    /\ IF File.fails = "open"
       THEN /\ Raised("docx", "open")
            /\ UNCHANGED converted_files
       ELSE /\ pc' = IF Call.image_handler # NoStore THEN "docx_rels" ELSE "docx_paras"
            /\ cursor' = 1
            /\ UNCHANGED << idx, errors, converted_files >>
    /\ Attempt
    /\ UNCHANGED << stores, wxr, saveLog >>
    /\ UNCHANGED beginIdle

\* _extract_all_images, one relationship of the loop; an exception ends
\* the whole loop with a warning
DocxExtractImage ==
    /\ pc = "docx_rels"
    /\ IF cursor > Len(File.rels)
       THEN /\ pc' = "docx_paras"
            /\ cursor' = 1
            /\ UNCHANGED << stores, docx, saveLog, callLog >>
       ELSE LET rel == File.rels[cursor]
                sid == docx.image_handler
                opt == OptimizeImage(rel.blob)
                r == SaveImage(stores[sid], opt[1], opt[2], PfxDocx)
            IN  IF ~rel.is_image
                THEN /\ cursor' = cursor + 1
                     /\ UNCHANGED << pc, stores, docx, saveLog, callLog >>
                ELSE IF rel.external
                THEN /\ pc' = "docx_paras"
                     /\ cursor' = 1
                     /\ UNCHANGED << stores, docx, saveLog, callLog >>
                ELSE /\ stores' = [ stores EXCEPT ![sid] = r.store ]
                     /\ docx' = [ docx EXCEPT !.extracted_images =
                           Put(@, rel.rId, [ filename |-> r.filename, origin |-> idx + 1 ]) ]
                     /\ saveLog' = Append(saveLog,
                           SaveEvent("docx", sid, opt[1], opt[2], PfxDocx, stores[sid], r))
                     /\ callLog' = callLog \o
                           << CallEvent("optimize", rel.rId, "ok", opt[2]),
                              CallEvent("save", rel.rId, "ok", r.filename) >>
                     /\ cursor' = cursor + 1
                     /\ pc' = pc
    /\ UNCHANGED << wxr, idx, markdown_lines, converted_files, errors >>
    /\ UNCHANGED seqIdle

\* convert, lines 51-57: the image lines of one paragraph
DocxParagraphLines(d, image_refs) ==
    LET found == SelectSeq(image_refs, LAMBDA r : r \in DOMAIN d.extracted_images)
    IN  [ i \in 1..Len(found) |->
            Line(AssetRef(d.extracted_images[found[i]].filename), found[i], "map",
                 d.extracted_images[found[i]].origin) ]

\* convert, lines 46-57: one paragraph of the loop
DocxParagraph ==
    /\ pc = "docx_paras"
    /\ cursor <= Len(File.paras)
    /\ markdown_lines' = markdown_lines \o DocxParagraphLines(docx, File.paras[cursor])
    /\ cursor' = cursor + 1
    /\ UNCHANGED << stores, docx, wxr, idx, pc, converted_files, errors, saveLog, callLog >>
    /\ UNCHANGED seqIdle

\* convert, lines 59-69: the tables, then the result or the wrapped error
DocxEnd ==
    /\ pc = "docx_paras"
    /\ cursor > Len(File.paras)
    /\ IF File.fails = "body"
       THEN Raised("docx", "body") /\ UNCHANGED converted_files
       ELSE Returned /\ UNCHANGED errors
    /\ UNCHANGED << stores, docx, wxr, markdown_lines, saveLog, callLog >>
    /\ UNCHANGED seqIdle

(***************************************************************************)
(* WxrConverter                                                            *)
(***************************************************************************)
\* convert falling back on the session's store when none is passed
WxrEnterDefaultStore(w, image_handler) ==
    [ image_handler |-> "storeA", downloaded_images |-> EmptyMap ]

\* convert, lines 29-30: the instance state as processing starts
WxrEnter(w, image_handler) ==
    [ image_handler |-> image_handler, downloaded_images |-> EmptyMap ]

\* convert, lines 28-36: take the arguments, reset the map, read the file
WxrBegin ==
    /\ pc = "loop"
    /\ idx < Len(batch)
    /\ File.type = "wxr"
    /\ wxr' = WxrEnter(wxr, Call.image_handler)
    /\ markdown_lines' = << >>
    /\ callLog' = << >>
    /\ IF File.fails = "open"
       THEN /\ Raised("wxr", "open")
            /\ UNCHANGED converted_files
       ELSE /\ pc' = "wxr_imgs"
            /\ cursor' = 1
            /\ UNCHANGED << idx, errors, converted_files >>
    /\ Attempt
    /\ UNCHANGED << stores, docx, saveLog >>
    /\ UNCHANGED beginIdle

\* the extension the download reported, passed on to save_image
WxrSaveExtFromDownload(download_ext, optimized_ext) == download_ext

\* _download_image_if_needed, lines 375-377: ext is rebound by optimize_image
WxrSaveExt(download_ext, optimized_ext) == optimized_ext

\* "self.downloaded_images[url] = filename" left out
WxrRememberNothing(w, url, entry) == w

\* _download_image_if_needed, line 383
WxrRemember(w, url, entry) ==
    [ w EXCEPT !.downloaded_images = Put(@, url, entry) ]

\* _download_image_if_needed, line 369
WxrCacheHit(w, url) == url \in DOMAIN w.downloaded_images

\* _convert_html_elements, lines 305-311, one <img> of the document:
\* _download_image_if_needed(src) and the image line
WxrImage ==
    /\ pc = "wxr_imgs"
    /\ cursor <= Len(File.imgs)
    /\ LET url == File.imgs[cursor]
           sid == wxr.image_handler
       IN  IF sid = NoStore
           THEN /\ markdown_lines' = Append(markdown_lines, Line(url, url, "url", 0))
                /\ cursor' = cursor + 1
                /\ UNCHANGED << stores, wxr, saveLog, callLog, pc, idx, errors >>
           ELSE IF WxrCacheHit(wxr, url)
           THEN /\ markdown_lines' = Append(markdown_lines,
                      Line(AssetRef(wxr.downloaded_images[url].filename), url, "map",
                           wxr.downloaded_images[url].origin))
                /\ cursor' = cursor + 1
                /\ UNCHANGED << stores, wxr, saveLog, callLog, pc, idx, errors >>
           ELSE \E outcome \in ConvertFetchOutcomes :
                  LET result == DownloadImage(url, outcome)
                  IN  CASE result.kind = "value" ->
                             LET opt == OptimizeImage(result.data)
                                 ext == WxrSaveExt(result.ext, opt[2])
                                 r == SaveImage(stores[sid], opt[1], ext, PfxWxr)
                             IN  /\ stores' = [ stores EXCEPT ![sid] = r.store ]
                                 /\ wxr' = WxrRemember(wxr, url,
                                       [ filename |-> r.filename, origin |-> idx + 1 ])
                                 /\ saveLog' = Append(saveLog,
                                       SaveEvent("wxr", sid, opt[1], ext, PfxWxr, stores[sid], r))
                                 /\ callLog' = callLog \o
                                       << CallEvent("fetch", url, outcome, << >>),
                                          CallEvent("optimize", url, "ok", opt[2]),
                                          CallEvent("save", url, "ok", r.filename) >>
                                 /\ markdown_lines' = Append(markdown_lines,
                                       Line(AssetRef(r.filename), url, "save", idx + 1))
                                 /\ cursor' = cursor + 1
                                 /\ UNCHANGED << pc, idx, errors >>
                        [] result.kind = "none" ->
                             /\ callLog' = Append(callLog,
                                   CallEvent("fetch", url, outcome, << >>))
                             /\ markdown_lines' = Append(markdown_lines,
                                   Line(url, url, "url", 0))
                             /\ cursor' = cursor + 1
                             /\ UNCHANGED << stores, wxr, saveLog, pc, idx, errors >>
                        [] result.kind = "raise" ->
                             /\ callLog' = Append(callLog,
                                   CallEvent("fetch", url, outcome, << >>))
                             /\ Raised("wxr", "fetch")
                             /\ UNCHANGED << stores, wxr, saveLog, markdown_lines >>
    /\ UNCHANGED << docx, converted_files >>
    /\ UNCHANGED seqIdle

\* convert, lines 45-56: the result or the wrapped error
WxrEnd ==
    /\ pc = "wxr_imgs"
    /\ cursor > Len(File.imgs)
    /\ IF File.fails = "body"
       THEN Raised("wxr", "body") /\ UNCHANGED converted_files
       ELSE Returned /\ UNCHANGED errors
    /\ UNCHANGED << stores, docx, wxr, markdown_lines, saveLog, callLog >>
    /\ UNCHANGED seqIdle

\* The batch is over: the store is kept for packaging, which reads
\* get_all_images().
Finish ==
    /\ pc = "loop"
    /\ idx = Len(batch)
    /\ pc' = "done"
    /\ snapshot' = GetAllImages(stores["storeA"])
    /\ UNCHANGED << stores, docx, wxr, batch, idx, cursor, markdown_lines,
                    converted_files, errors, saveLog, callLog, lastResult, thr,
                    attempted >>

Next ==
    \/ DocxBegin
    \/ DocxExtractImage
    \/ DocxParagraph
    \/ DocxEnd
    \/ WxrBegin
    \/ WxrImage
    \/ WxrEnd
    \/ Finish

Spec == Init /\ [][Next]_vars

(***************************************************************************)
(* Claims about the parsers and the store they are given (Spec)            *)
(***************************************************************************)
LowerLetters == { "a", "b", "c", "d", "e", "f", "g", "h", "i", "j", "k", "l", "m",
                  "n", "o", "p", "q", "r", "s", "t", "u", "v", "w", "x", "y", "z" }

\* Characters that are neither a path separator ("/", "\\") nor a control
\* character.
PlainChars == LowerLetters \cup Range(DigitChars) \cup { "_", "." }

OptimizeExts == { OptimizeImage(raw)[2] : raw \in RawImages }

WellShaped(filename) ==
    LET p == ParseFilename(filename)
    IN  /\ p.ok
        /\ p.prefix \in { PfxDocx, PfxWxr }
        /\ p.digits[1] # "0"
        /\ p.seq >= 1
        /\ Len(p.hash) = 8
        /\ \A i \in 1..8 : p.hash[i] \in HexChars
        /\ p.ext \in OptimizeExts
        /\ \A i \in 1..Len(filename) : filename[i] \in PlainChars

\* C3: every filename save_image returns to the two parsers, and every
\* filename stored, reads prefix_sequence_hash.ext with prefix docx_img or
\* wxr_img, a positive sequence number, 8 hex characters and an extension
\* optimize_image returns (the one it returned for this image when the call
\* allocated), and holds no path separator and no control character.
C3_FilenameShape ==
    /\ \A i \in 1..Len(saveLog) :
          /\ WellShaped(saveLog[i].filename)
          /\ saveLog[i].fresh =>
                /\ ParseFilename(saveLog[i].filename).ext = saveLog[i].ext
                /\ ParseFilename(saveLog[i].filename).prefix = saveLog[i].prefix
    /\ \A f \in StoredNames(stores["storeA"]) : WellShaped(f)

\* Both parsers had a filename allocated, one jpg and one png.
C3_Witness ==
    /\ \E i \in 1..Len(saveLog) : saveLog[i].who = "docx" /\ saveLog[i].fresh
    /\ \E i \in 1..Len(saveLog) : saveLog[i].who = "wxr" /\ saveLog[i].fresh
    /\ \E f, g \in StoredNames(stores["storeA"]) :
          ParseFilename(f).ext = ExtJpg /\ ParseFilename(g).ext = ExtPng

ResolvedLines(lines) == { i \in 1..Len(lines) : lines[i].via # "url" }

\* C4: every image line resolved through the store reads assets/<filename>
\* with <filename> the string save_image returned for that reference in
\* this conversion, and every such filename of the running and of the
\* finished conversions is a value of get_all_images(), also in the
\* snapshot taken when the batch ends.
C4_AssetRefsResolve ==
    /\ pc \in { "docx_rels", "docx_paras", "wxr_imgs" } =>
          \A i \in ResolvedLines(markdown_lines) :
              \E k \in 1..Len(callLog) :
                  /\ callLog[k].op = "save"
                  /\ callLog[k].ref = markdown_lines[i].ref
                  /\ markdown_lines[i].text = AssetsDir \o callLog[k].value
                  /\ callLog[k].value \in StoredNames(stores["storeA"])
    /\ \A c \in 1..Len(converted_files) :
          \A i \in ResolvedLines(converted_files[c].lines) :
              LET text == converted_files[c].lines[i].text
              IN  /\ StartsWith(text, AssetsDir)
                  /\ SubSeq(text, Len(AssetsDir) + 1, Len(text))
                        \in StoredNames(stores["storeA"])
                  /\ pc = "done" =>
                        SubSeq(text, Len(AssetsDir) + 1, Len(text)) \in Range(snapshot)

\* The batch is over and a styled document and a syndication export each
\* hold a resolved image line.
C4_Witness ==
    /\ pc = "done"
    /\ \E c \in 1..Len(converted_files) :
          converted_files[c].file_type = "docx"
              /\ ResolvedLines(converted_files[c].lines) # {}
    /\ \E c \in 1..Len(converted_files) :
          converted_files[c].file_type = "wxr"
              /\ ResolvedLines(converted_files[c].lines) # {}

FailedFetches ==
    { k \in 1..Len(callLog) : callLog[k].op = "fetch" /\ callLog[k].outcome # "ok" }

\* C5: with a store supplied, a failed request never raises out of
\* download_image (no conversion ends on a fetch error), the image line of
\* that occurrence carries the original URL, and the conversion of every
\* readable export returns.
C5_FetchFailureDegrades ==
    /\ \A e \in 1..Len(errors) : errors[e].cause # "fetch"
    /\ \A k \in FailedFetches :
          /\ Len(markdown_lines) >= callLog[k].at
          /\ markdown_lines[callLog[k].at].text = callLog[k].ref
    /\ \A c \in 1..idx :
          (batch[c].file.type = "wxr" /\ batch[c].file.fails = "none") =>
              \E r \in 1..Len(converted_files) : converted_files[r].idx = c

\* A conversion with a timed-out request and a refused one has returned.
C5_Witness ==
    /\ pc = "loop"
    /\ idx >= 1
    /\ \E k \in FailedFetches : callLog[k].outcome = "timeout"
    /\ \E k \in FailedFetches : callLog[k].outcome = "URLError"
    /\ \E r \in 1..Len(converted_files) :
          converted_files[r].idx = idx /\ converted_files[r].file_type = "wxr"

\* C6 as stated: once a fetch for a URL has failed, no further fetch for
\* that URL is attempted in the same conversion.
C6_NoFetchAfterFailure ==
    \A i, j \in 1..Len(callLog) :
        ~ ( /\ i < j
            /\ callLog[i].op = "fetch"
            /\ callLog[j].op = "fetch"
            /\ callLog[i].outcome # "ok"
            /\ callLog[i].ref = callLog[j].ref )

\* C7: after a successful fetch of a URL, no later occurrence of the URL in
\* the same conversion calls fetch, optimize or save, and each is resolved
\* from the cache to the same assets/<filename>.
C7_SuccessfulUrlFetchedOnce ==
    \A i \in 1..Len(callLog) :
        (callLog[i].op = "fetch" /\ callLog[i].outcome = "ok") =>
            /\ \A j \in 1..Len(callLog) :
                  ~ (callLog[j].at > callLog[i].at /\ callLog[j].ref = callLog[i].ref)
            /\ \A m \in 1..Len(markdown_lines) :
                  (m > callLog[i].at /\ markdown_lines[m].ref = callLog[i].ref) =>
                      /\ markdown_lines[m].via = "map"
                      /\ markdown_lines[m].text = markdown_lines[callLog[i].at].text

\* A URL fetched with success occurred again later in the document.
C7_Witness ==
    \E i \in 1..Len(callLog) :
        /\ callLog[i].op = "fetch"
        /\ callLog[i].outcome = "ok"
        /\ \E m \in 1..Len(markdown_lines) :
              m > callLog[i].at /\ markdown_lines[m].ref = callLog[i].ref

\* C8: the parser's reference map is empty when a call starts processing,
\* also after a call that raised; while a file is converted the map holds
\* only entries recorded for that file, and no image line is resolved from
\* an entry recorded for another file.
C8_MapFreshPerFile ==
    /\ (pc = "docx_rels" /\ cursor = 1) => docx.extracted_images = EmptyMap
    /\ (pc = "wxr_imgs" /\ cursor = 1) => wxr.downloaded_images = EmptyMap
    /\ pc \in { "docx_rels", "docx_paras" } =>
          \A k \in DOMAIN docx.extracted_images :
              docx.extracted_images[k].origin = idx + 1
    /\ pc = "wxr_imgs" =>
          \A k \in DOMAIN wxr.downloaded_images :
              wxr.downloaded_images[k].origin = idx + 1
    /\ \A c \in 1..Len(converted_files) :
          \A i \in ResolvedLines(converted_files[c].lines) :
              converted_files[c].lines[i].origin = converted_files[c].idx

\* A second styled document is being rendered on the instance whose
\* previous call recorded references and then raised.
C8_Witness ==
    /\ idx = 1
    /\ pc = "docx_paras"
    /\ cursor > 1
    /\ batch[1].file.name = "c.docx"
    /\ batch[1].image_handler = "storeA"
    /\ Len(errors) = 1
    /\ File.name = "b.docx"
    /\ Call.image_handler = "storeA"

(***************************************************************************)
(* SpecConc: two sessions press "Convert All Files" at the same time.      *)
(* Each has its own ImageHandler (app.py line 293), both call convert on   *)
(* the one WxrConverter that st.cache_resource hands to every session      *)
(* (app.py lines 32-45).  The interpreter may switch threads between any   *)
(* two bytecodes, so convert, _download_image_if_needed and save_image     *)
(* advance one statement at a time, and "self.image_counter += 1" is a     *)
(* load followed by a store.                                               *)
(***************************************************************************)
Threads == { "t1", "t2" }

ConcFiles == { f \in SampleFiles : f.type = "wxr" /\ f.fails = "none" }

ConcFetchOutcomes == { "ok", "timeout" }

HandlerOf(t) == IF t = "t1" THEN "storeA" ELSE "storeB"

InitConc ==
    /\ stores = [ s \in StoreIds |-> NewStore ]
    /\ docx = NewDocx
    /\ wxr = NewWxr
    /\ batch = << >>
    /\ idx = 0
    /\ pc = "threads"
    /\ cursor = 0
    /\ markdown_lines = << >>
    /\ converted_files = << >>
    /\ errors = << >>
    /\ saveLog = << >>
    /\ callLog = << >>
    /\ snapshot = EmptyMap
    /\ lastResult = NoValue
    /\ attempted = << >>
    /\ \E f1, f2 \in ConcFiles :
          thr = [ t \in Threads |->
                    [ pc |-> "start", file |-> IF t = "t1" THEN f1 ELSE f2,
                      arg |-> HandlerOf(t), cursor |-> 0, url |-> << >>,
                      data |-> "", ext |-> << >>, store |-> NoStore,
                      hash |-> << >>, reg |-> 0, filename |-> << >>,
                      lines |-> << >>, wiped |-> FALSE ] ]

concIdle == << docx, batch, idx, pc, cursor, markdown_lines, converted_files,
               errors, callLog, snapshot, lastResult, attempted >>

Running(t) == thr[t].pc \notin { "start", "returned", "raised" }

\* convert, line 29: self.image_handler = image_handler
TEnter(t) ==
    /\ thr[t].pc = "start"
    /\ wxr' = [ wxr EXCEPT !.image_handler = thr[t].arg ]
    /\ thr' = [ thr EXCEPT ![t].pc = "reset" ]
    /\ UNCHANGED << stores, saveLog >>
    /\ UNCHANGED concIdle

\* convert, line 30: self.downloaded_images = {}
TResetMap(t) ==
    /\ thr[t].pc = "reset"
    /\ wxr' = [ wxr EXCEPT !.downloaded_images = EmptyMap ]
    /\ thr' = [ thr EXCEPT ![t].pc = "img", ![t].cursor = 1,
                  ![t].wiped = \E k \in DOMAIN wxr.downloaded_images :
                      /\ wxr.downloaded_images[k].origin # t
                      /\ Running(wxr.downloaded_images[k].origin) ]
    /\ UNCHANGED << stores, saveLog >>
    /\ UNCHANGED concIdle

\* _convert_html_elements, lines 305-310, and _download_image_if_needed,
\* lines 365-369: the next <img>, the handler test and the cache test
TNextImage(t) ==
    /\ thr[t].pc = "img"
    /\ IF thr[t].cursor > Len(thr[t].file.imgs)
       THEN thr' = [ thr EXCEPT ![t].pc = "returned" ]
       ELSE LET url == thr[t].file.imgs[thr[t].cursor]
            IN  thr' = [ thr EXCEPT ![t].url = url,
                           ![t].pc = IF WxrCacheHit(wxr, url) THEN "hit" ELSE "fetch" ]
    /\ UNCHANGED << stores, wxr, saveLog >>
    /\ UNCHANGED concIdle

\* _download_image_if_needed, line 370: self.downloaded_images[url], which
\* raises KeyError when the map was replaced since the test of line 369
THit(t) ==
    /\ thr[t].pc = "hit"
    /\ IF thr[t].url \in DOMAIN wxr.downloaded_images
       THEN thr' = [ thr EXCEPT ![t].pc = "img", ![t].cursor = @ + 1,
                       ![t].lines = Append(@,
                           Line(AssetRef(wxr.downloaded_images[thr[t].url].filename),
                                thr[t].url, "map",
                                wxr.downloaded_images[thr[t].url].origin)) ]
       ELSE thr' = [ thr EXCEPT ![t].pc = "raised" ]
    /\ UNCHANGED << stores, wxr, saveLog >>
    /\ UNCHANGED concIdle

\* _download_image_if_needed, lines 373-375 and 387
TFetch(t) ==
    /\ thr[t].pc = "fetch"
    /\ \E outcome \in ConcFetchOutcomes :
          LET result == DownloadImage(thr[t].url, outcome)
          IN  CASE result.kind = "value" ->
                     thr' = [ thr EXCEPT ![t].pc = "optimize",
                                ![t].data = result.data, ![t].ext = result.ext ]
                [] result.kind = "none" ->
                     thr' = [ thr EXCEPT ![t].pc = "img", ![t].cursor = @ + 1,
                                ![t].lines = Append(@,
                                    Line(thr[t].url, thr[t].url, "url", t)) ]
                [] result.kind = "raise" ->
                     thr' = [ thr EXCEPT ![t].pc = "raised" ]
    /\ UNCHANGED << stores, wxr, saveLog >>
    /\ UNCHANGED concIdle

\* _download_image_if_needed, line 377
TOptimize(t) ==
    /\ thr[t].pc = "optimize"
    /\ LET opt == OptimizeImage(thr[t].data)
       IN  thr' = [ thr EXCEPT ![t].pc = "save_check", ![t].data = opt[1],
                      ![t].ext = WxrSaveExt(thr[t].ext, opt[2]) ]
    /\ UNCHANGED << stores, wxr, saveLog >>
    /\ UNCHANGED concIdle

\* _download_image_if_needed, line 378: self.image_handler is read and
\* save_image entered on it; save_image, lines 96-100
TSaveCheck(t) ==
    /\ thr[t].pc = "save_check"
    /\ LET sid == wxr.image_handler
           image_hash == Md5Hex8(thr[t].data)
       IN  IF image_hash \in DOMAIN stores[sid].images
           THEN /\ thr' = [ thr EXCEPT ![t].pc = "record", ![t].store = sid,
                              ![t].hash = image_hash,
                              ![t].filename = stores[sid].images[image_hash] ]
                /\ saveLog' = Append(saveLog,
                      [ who |-> t, store |-> sid, data |-> thr[t].data,
                        ext |-> thr[t].ext, prefix |-> PfxWxr,
                        filename |-> stores[sid].images[image_hash],
                        fresh |-> FALSE ])
           ELSE /\ thr' = [ thr EXCEPT ![t].pc = "save_load", ![t].store = sid,
                              ![t].hash = image_hash ]
                /\ UNCHANGED saveLog
    /\ UNCHANGED << stores, wxr >>
    /\ UNCHANGED concIdle

\* save_image, line 103, first half: self.image_counter is loaded
TSaveLoad(t) ==
    /\ thr[t].pc = "save_load"
    /\ thr' = [ thr EXCEPT ![t].pc = "save_store",
                  ![t].reg = stores[thr[t].store].image_counter ]
    /\ UNCHANGED << stores, wxr, saveLog >>
    /\ UNCHANGED concIdle

\* save_image, line 103, second half: the loaded value plus one is stored
TSaveStore(t) ==
    /\ thr[t].pc = "save_store"
    /\ stores' = [ stores EXCEPT ![thr[t].store].image_counter = thr[t].reg + 1 ]
    /\ thr' = [ thr EXCEPT ![t].pc = "save_name" ]
    /\ UNCHANGED << wxr, saveLog >>
    /\ UNCHANGED concIdle

\* save_image, line 104: the f-string reads self.image_counter
TSaveName(t) ==
    /\ thr[t].pc = "save_name"
    /\ thr' = [ thr EXCEPT ![t].pc = "save_images",
                  ![t].filename = FormatFilename(PfxWxr,
                      stores[thr[t].store].image_counter, thr[t].hash, thr[t].ext) ]
    /\ UNCHANGED << stores, wxr, saveLog >>
    /\ UNCHANGED concIdle

\* save_image, line 107
TSaveImages(t) ==
    /\ thr[t].pc = "save_images"
    /\ stores' = [ stores EXCEPT ![thr[t].store].images =
                     Put(@, thr[t].hash, thr[t].filename) ]
    /\ thr' = [ thr EXCEPT ![t].pc = "save_data" ]
    /\ UNCHANGED << wxr, saveLog >>
    /\ UNCHANGED concIdle

\* save_image, lines 108-110
TSaveData(t) ==
    /\ thr[t].pc = "save_data"
    /\ stores' = [ stores EXCEPT ![thr[t].store].image_data =
                     Put(@, thr[t].hash, thr[t].data) ]
    /\ saveLog' = Append(saveLog,
          [ who |-> t, store |-> thr[t].store, data |-> thr[t].data,
            ext |-> thr[t].ext, prefix |-> PfxWxr, filename |-> thr[t].filename,
            fresh |-> TRUE ])
    /\ thr' = [ thr EXCEPT ![t].pc = "record" ]
    /\ UNCHANGED wxr
    /\ UNCHANGED concIdle

\* _download_image_if_needed, lines 383-384
TRecord(t) ==
    /\ thr[t].pc = "record"
    /\ wxr' = WxrRemember(wxr, thr[t].url,
                  [ filename |-> thr[t].filename, origin |-> t ])
    /\ thr' = [ thr EXCEPT ![t].pc = "img", ![t].cursor = @ + 1,
                  ![t].lines = Append(@,
                      Line(AssetRef(thr[t].filename), thr[t].url, "save", t)) ]
    /\ UNCHANGED << stores, saveLog >>
    /\ UNCHANGED concIdle

NextConc ==
    \E t \in Threads :
        \/ TEnter(t)
        \/ TResetMap(t)
        \/ TNextImage(t)
        \/ THit(t)
        \/ TFetch(t)
        \/ TOptimize(t)
        \/ TSaveCheck(t)
        \/ TSaveLoad(t)
        \/ TSaveStore(t)
        \/ TSaveName(t)
        \/ TSaveImages(t)
        \/ TSaveData(t)
        \/ TRecord(t)

SpecConc == InitConc /\ [][NextConc]_vars

(***************************************************************************)
(* Claims about concurrent conversions (SpecConc)                          *)
(***************************************************************************)
\* C9 as stated: of two conversions running concurrently, neither resets
\* or reads the map of the other, and neither saves an image into the
\* Image Store that was passed to the other.
C9_NoSharedExtractionState ==
    /\ \A e \in 1..Len(saveLog) : saveLog[e].store = HandlerOf(saveLog[e].who)
    /\ \A t \in Threads :
          /\ ~thr[t].wiped
          /\ \A i \in 1..Len(thr[t].lines) :
                thr[t].lines[i].via = "map" => thr[t].lines[i].origin = t

SeqNumbers(s) == { ParseFilename(f).seq : f \in StoredNames(s) }

\* C10 as stated: whatever the interleaving of save calls on one store, no
\* two stored images carry the same sequence number and two saves of
\* identical bytes return the same filename.
C10_SaveAtomic ==
    /\ \A s \in StoreIds :
          Cardinality(SeqNumbers(stores[s])) = Cardinality(DOMAIN stores[s].images)
    /\ \A i, j \in 1..Len(saveLog) :
          (saveLog[i].store = saveLog[j].store /\ saveLog[i].data = saveLog[j].data)
              => saveLog[i].filename = saveLog[j].filename

(***************************************************************************)
(* Text input.  An uploaded text file is the sequence of its lines (the    *)
(* bytes between line feeds), a line a sequence of bytes: an ASCII         *)
(* character stands for its own byte, "xE9", "xC3", "xA9", "x81" for the   *)
(* bytes 0xE9, 0xC3, 0xA9, 0x81.  Decoded text has one string per          *)
(* character, "U+00E9" for a character outside ASCII.                      *)
(***************************************************************************)
HighBytes == { "xE9", "xC3", "xA9", "x81" }
ContinuationBytes == { "x81", "xA9" }

\* UTF-8: 0xC3 leads a two-byte sequence, 0xE9 a three-byte sequence
Utf8Two(b) == IF b = "x81" THEN "U+00C1" ELSE "U+00E9"
Utf8Three(b1, b2) ==
    CASE b1 = "x81" /\ b2 = "x81" -> "U+9041"
      [] b1 = "x81" /\ b2 = "xA9" -> "U+9069"
      [] b1 = "xA9" /\ b2 = "x81" -> "U+9A41"
      [] OTHER -> "U+9A69"

DecodeFailed == [ ok |-> FALSE, text |-> << >> ]

\* A lead byte starts a character: 0xC3 needs one continuation byte after
\* it, 0xE9 two, and a continuation byte stands nowhere else.
DecodeUtf8(bytes) ==
    LET n == Len(bytes)
        cont(i) == i >= 1 /\ i <= n /\ bytes[i] \in ContinuationBytes
        valid == \A i \in 1..n :
                    /\ bytes[i] = "xC3" => cont(i + 1)
                    /\ bytes[i] = "xE9" => cont(i + 1) /\ cont(i + 2)
                    /\ cont(i) => \/ (i > 1 /\ bytes[i - 1] \in { "xC3", "xE9" })
                                  \/ (i > 2 /\ bytes[i - 2] = "xE9" /\ cont(i - 1))
        leads == SelectSeq([ i \in 1..n |-> i ], LAMBDA i : ~cont(i))
        char(i) == CASE bytes[i] = "xC3" -> Utf8Two(bytes[i + 1])
                     [] bytes[i] = "xE9" -> Utf8Three(bytes[i + 1], bytes[i + 2])
                     [] OTHER -> bytes[i]
    IN  IF valid
        THEN [ ok |-> TRUE, text |-> [ k \in 1..Len(leads) |-> char(leads[k]) ] ]
        ELSE DecodeFailed

\* Latin-1 maps every byte to the character of the same number
Latin1Char(b) ==
    CASE b = "xE9" -> "U+00E9"
      [] b = "xC3" -> "U+00C3"
      [] b = "xA9" -> "U+00A9"
      [] b = "x81" -> "U+0081"
      [] OTHER -> b

DecodeLatin1(bytes) ==
    [ ok |-> TRUE, text |-> [ i \in 1..Len(bytes) |-> Latin1Char(bytes[i]) ] ]

\* the Windows codepage has no character for the byte 0x81
DecodeCp1252(bytes) ==
    IF \E i \in 1..Len(bytes) : bytes[i] = "x81"
    THEN DecodeFailed
    ELSE DecodeLatin1(bytes)

DecodeAscii(bytes) ==
    IF \E i \in 1..Len(bytes) : bytes[i] \in HighBytes
    THEN DecodeFailed
    ELSE [ ok |-> TRUE, text |-> bytes ]

DecodeLine(bytes, encoding) ==
    CASE encoding = "utf-8" -> DecodeUtf8(bytes)
      [] encoding = "latin-1" -> DecodeLatin1(bytes)
      [] encoding = "cp1252" -> DecodeCp1252(bytes)
      [] OTHER -> DecodeAscii(bytes)

\* content.decode(encoding): the decoded lines, or UnicodeDecodeError
Decode(content, encoding) ==
    IF \A i \in 1..Len(content) : DecodeLine(content[i], encoding).ok
    THEN [ ok |-> TRUE,
           text |-> [ i \in 1..Len(content) |-> DecodeLine(content[i], encoding).text ] ]
    ELSE DecodeFailed

(***************************************************************************)
(* String operations of the parsers                                        *)
(***************************************************************************)
\* s.split(sep) for a one-character separator
RECURSIVE Split(_, _)
Split(s, sep) ==
    LET P == { i \in 1..Len(s) : s[i] = sep }
    IN  IF P = {} THEN << s >>
        ELSE LET p == CHOOSE i \in P : \A j \in P : i <= j
             IN  << SubSeq(s, 1, p - 1) >> \o Split(SubSeq(s, p + 1, Len(s)), sep)

\* sep.join(parts)
RECURSIVE Join(_, _)
Join(parts, sep) ==
    IF parts = << >> THEN << >>
    ELSE IF Len(parts) = 1 THEN parts[1]
    ELSE parts[1] \o sep \o Join(Tail(parts), sep)

\* s.replace(old, new) for a one-character old
RECURSIVE Replace(_, _, _)
Replace(s, old, new) ==
    IF s = << >> THEN << >>
    ELSE IF Len(s) = 1 THEN (IF s[1] = old THEN new ELSE s)
    ELSE LET h == Len(s) \div 2
         IN  Replace(SubSeq(s, 1, h), old, new) \o Replace(SubSeq(s, h + 1, Len(s)), old, new)

\* needle in s
Contains(s, needle) ==
    \E i \in 1..(Len(s) - Len(needle) + 1) : SubSeq(s, i, i + Len(needle) - 1) = needle

EndsWith(s, p) ==
    Len(s) >= Len(p) /\ SubSeq(s, Len(s) - Len(p) + 1, Len(s)) = p

(***************************************************************************)
(* pandas.read_csv and the DataFrame, as far as CsvConverter uses them.    *)
(* Fields are separated by commas, blank lines are skipped, the first      *)
(* line left is the header.  The input files have no quoted field and no   *)
(* line with more fields than the header.                                  *)
(***************************************************************************)
\* a cell: missing (NaN) when the field is empty or absent
Cell(text) == [ na |-> text = << >>, text |-> text ]

\* header names: an empty name becomes "Unnamed: i", a repeated one "name.k"
ColumnName(fields, i) ==
    LET base == IF fields[i] = << >>
                THEN << "U", "n", "n", "a", "m", "e", "d", ":", " " >> \o DecStr(i - 1)
                ELSE fields[i]
        k == Cardinality({ j \in 1..(i - 1) : fields[j] = fields[i] })
    IN  IF fields[i] # << >> /\ k > 0 THEN base \o << "." >> \o DecStr(k) ELSE base

\* the type read_csv infers for a column
InferDtype(rows, c) ==
    LET cells == { rows[r][c] : r \in 1..Len(rows) }
    IN  IF cells = {} THEN "object"
        ELSE IF \A x \in cells : ~x.na /\ AllDigits(x.text) THEN "int64"
        ELSE IF \A x \in cells : x.na \/ AllDigits(x.text) THEN "float64"
        ELSE "object"

ReadCsv(text) ==
    LET lines == SelectSeq(text, LAMBDA l : l # << >>)
    IN  IF lines = << >>
        THEN [ ok |-> FALSE, exc |-> "EmptyDataError" ]
        ELSE LET header == Split(lines[1], ",")
                 C == Len(header)
                 row(i) == LET fields == Split(lines[i + 1], ",")
                           IN  [ c \in 1..C |->
                                   Cell(IF c <= Len(fields) THEN fields[c] ELSE << >>) ]
                 rows == [ i \in 1..(Len(lines) - 1) |-> row(i) ]
             IN  [ ok |-> TRUE,
                   df |-> [ columns |-> [ c \in 1..C |-> ColumnName(header, c) ],
                            rows |-> rows,
                            dtypes |-> [ c \in 1..C |-> InferDtype(rows, c) ] ] ]

DtypeStr(dtype) ==
    CASE dtype = "int64" -> << "i", "n", "t", "6", "4" >>
      [] dtype = "float64" -> << "f", "l", "o", "a", "t", "6", "4" >>
      [] OTHER -> << "o", "b", "j", "e", "c", "t" >>

IsNumeric(dtype) == dtype \in { "int64", "float64" }

\* df.select_dtypes(include=["number"]).columns, as column positions
NumericColumns(df) ==
    SelectSeq([ c \in 1..Len(df.columns) |-> c ], LAMBDA c : IsNumeric(df.dtypes[c]))

\* df.empty: an axis of length 0
DfEmpty(df) == Len(df.rows) = 0 \/ Len(df.columns) = 0

\* the type of the row Series iterrows yields: the common type of the columns
RowDtype(df) ==
    LET types == Range(df.dtypes)
    IN  IF types = { "int64" } THEN "int64"
        ELSE IF types \subseteq { "int64", "float64" } THEN "float64"
        ELSE "object"

\* str(value) of a cell that is not missing, in a row Series of type row_dtype
ValueStr(row_dtype, dtype, x) ==
    LET asInt == DecStr(DecValue(x.text))
    IN  CASE row_dtype = "int64" -> asInt
          [] row_dtype = "float64" -> asInt \o << ".", "0" >>
          [] dtype = "int64" -> asInt
          [] dtype = "float64" -> asInt \o << ".", "0" >>
          [] OTHER -> x.text

(***************************************************************************)
(* CsvConverter                                                            *)
(***************************************************************************)
RowLimit == 1000
CellLimit == 100
CellKeep == 97

CsvEncodings == << "utf-8", "latin-1", "cp1252" >>

\* the loop falling back to an empty DataFrame when no encoding parses
RECURSIVE CsvReadAnyEmptyFrame(_, _)
CsvReadAnyEmptyFrame(content, encodings) ==
    IF encodings = << >>
    THEN [ found |-> TRUE, tried |-> << >>,
           df |-> [ columns |-> << >>, rows |-> << >>, dtypes |-> << >> ] ]
    ELSE LET encoding == Head(encodings)
             d == Decode(content, encoding)
             r == ReadCsv(d.text)
             outcome == IF ~d.ok THEN "UnicodeDecodeError"
                        ELSE IF ~r.ok THEN r.exc
                        ELSE "ok"
             attempt == [ encoding |-> encoding, outcome |-> outcome ]
         IN  IF outcome = "ok"
             THEN [ found |-> TRUE, df |-> r.df, tried |-> << attempt >> ]
             ELSE LET rest == CsvReadAnyEmptyFrame(content, Tail(encodings))
                  IN  [ rest EXCEPT !.tried = << attempt >> \o @ ]

\* convert, lines 29-35: the encodings tried in turn until one decodes and
\* parses; tried is the observation of what each attempt did
RECURSIVE CsvReadAny(_, _)
CsvReadAny(content, encodings) ==
    IF encodings = << >>
    THEN [ found |-> FALSE, tried |-> << >> ]
    ELSE LET encoding == Head(encodings)
             d == Decode(content, encoding)
             r == ReadCsv(d.text)
             outcome == IF ~d.ok THEN "UnicodeDecodeError"
                        ELSE IF ~r.ok THEN r.exc
                        ELSE "ok"
             attempt == [ encoding |-> encoding, outcome |-> outcome ]
         IN  IF outcome = "ok"
             THEN [ found |-> TRUE, df |-> r.df, tried |-> << attempt >> ]
             ELSE LET rest == CsvReadAny(content, Tail(encodings))
                  IN  [ rest EXCEPT !.tried = << attempt >> \o @ ]

\* _extract_metadata
CsvExtractMetadata(df, filename) ==
    << << "-", "-", "-" >>,
       << "t", "i", "t", "l", "e", ":", " ", "\"" >> \o filename \o << "\"" >>,
       << "s", "o", "u", "r", "c", "e", "_", "f", "o", "r", "m", "a", "t", ":", " ", "\"", "C", "S", "V", "\"" >>,
       << "r", "o", "w", "s", ":", " " >> \o DecStr(Len(df.rows)),
       << "c", "o", "l", "u", "m", "n", "s", ":", " " >> \o DecStr(Len(df.columns)),
       << "c", "o", "l", "u", "m", "n", "s", ":" >> >>
    \o [ c \in 1..Len(df.columns) |->
           << " ", " ", "-", " " >> \o df.columns[c] \o << ":", " " >> \o DtypeStr(df.dtypes[c]) ]
    \o << << "-", "-", "-" >> >>

\* "| " + " | ".join(cells) + " |"
TableRow(cells) == << "|", " " >> \o Join(cells, << " ", "|", " " >>) \o << " ", "|" >>

\* the separator row for n columns
SeparatorRow(n) == TableRow([ c \in 1..n |-> << "-", "-", "-" >> ])

\* _dataframe_to_markdown, lines 103-109: one cell of a data row
CsvCellContent(df, c, x) ==
    LET cell_content == IF x.na THEN << >> ELSE ValueStr(RowDtype(df), df.dtypes[c], x)
        escaped == Replace(cell_content, "|", << "\\", "|" >>)
    IN  IF Len(escaped) > CellLimit
        THEN SubSeq(escaped, 1, CellKeep) \o << ".", ".", "." >>
        ELSE escaped

\* df.head(999)
CsvDisplayRowsShort(rows) ==
    IF Len(rows) > RowLimit THEN SubSeq(rows, 1, RowLimit - 1) ELSE rows

\* _dataframe_to_markdown, line 89
CsvDisplayRows(rows) ==
    IF Len(rows) > RowLimit THEN SubSeq(rows, 1, RowLimit) ELSE rows

\* _dataframe_to_markdown
CsvDataframeToMarkdown(df) ==
    IF DfEmpty(df)
    THEN << << "*", "N", "o", " ", "d", "a", "t", "a", " ", "a", "v", "a", "i", "l", "a", "b", "l", "e", "*" >> >>
    ELSE LET display == CsvDisplayRows(df.rows)
             C == Len(df.columns)
         IN  << TableRow(df.columns), SeparatorRow(C) >>
             \o [ r \in 1..Len(display) |->
                    TableRow([ c \in 1..C |-> CsvCellContent(df, c, display[r][c]) ]) ]
             \o (IF Len(df.rows) > RowLimit
                 THEN << << >>,
                         << "*", "N", "o", "t", "e", ":", " ", "S", "h", "o", "w", "i", "n", "g", " ", "f", "i", "r", "s", "t", " ", "1", "0", "0", "0", " ", "r", "o", "w", "s", " ", "o", "u", "t", " ", "o", "f", " " >>
                            \o DecStr(Len(df.rows)) \o << " ", "t", "o", "t", "a", "l", " ", "r", "o", "w", "s", ".", "*" >> >>
                 ELSE << >>)

\* _has_numeric_data: any() of the names of the numeric columns, and a
\* column name is never the empty string
CsvHasNumericData(df) == NumericColumns(df) # << >>

\* f"{value:.2f}" of a whole number
Fixed2(n) == DecStr(n) \o << ".", "0", "0" >>

StatNames == << << "c", "o", "u", "n", "t" >>, << "m", "e", "a", "n" >>, << "s", "t", "d" >>, << "m", "i", "n" >>, << "2", "5", "%" >>, << "5", "0", "%" >>, << "7", "5", "%" >>, << "m", "a", "x" >> >>

\* _create_summary_table, lines 147-155: one value of numeric_df.describe().
\* count, min and max are computed; the arithmetic of mean, std and the
\* quartiles is not, the cell names the statistic instead.
StatCell(df, c, stat) ==
    LET values == { DecValue(df.rows[r][c].text) :
                      r \in { q \in 1..Len(df.rows) : ~df.rows[q][c].na } }
        count == Cardinality({ q \in 1..Len(df.rows) : ~df.rows[q][c].na })
    IN  IF stat = << "c", "o", "u", "n", "t" >> THEN Fixed2(count)
        ELSE IF count = 0 \/ (stat = << "s", "t", "d" >> /\ count = 1) THEN << "N", "/", "A" >>
        ELSE IF stat = << "m", "i", "n" >> THEN Fixed2(CHOOSE v \in values : \A w \in values : v <= w)
        ELSE IF stat = << "m", "a", "x" >> THEN Fixed2(CHOOSE v \in values : \A w \in values : v >= w)
        ELSE << "<" >> \o stat \o << ">" >>

\* _create_summary_table
CsvCreateSummaryTable(df) ==
    LET cols == NumericColumns(df)
    IN  IF cols = << >> \/ Len(df.rows) = 0
        THEN << >>
        ELSE << TableRow(<< << "S", "t", "a", "t", "i", "s", "t", "i", "c" >> >> \o [ k \in 1..Len(cols) |-> df.columns[cols[k]] ]),
                SeparatorRow(Len(cols) + 1) >>
             \o [ s \in 1..Len(StatNames) |->
                    TableRow(<< StatNames[s] >>
                             \o [ k \in 1..Len(cols) |-> StatCell(df, cols[k], StatNames[s]) ]) ]

\* str(e) of what file.read() raises on a stream that cannot be read
ReadErrorText == << "I", "/", "O", " ", "o", "p", "e", "r", "a", "t", "i", "o", "n", " ", "o", "n", " ", "c", "l", "o", "s", "e", "d", " ", "f", "i", "l", "e", "." >>

\* CsvConverter.convert: the lines joined into the Markdown it returns, or
\* the message of the exception it raises; df, table and tried are kept as
\* observations of the call
CsvConverterConvert(file, include_metadata) ==
    IF file.fails = "open"
    THEN [ kind |-> "raise", tried |-> << >>,
           message |-> << "E", "r", "r", "o", "r", " ", "c", "o", "n", "v", "e", "r", "t", "i", "n", "g", " ", "C", "S", "V", " ", "f", "i", "l", "e", ":", " " >> \o ReadErrorText ]
    ELSE LET got == CsvReadAny(file.content, CsvEncodings)
         IN  IF ~got.found
             THEN [ kind |-> "raise", tried |-> got.tried,
                    message |-> << "E", "r", "r", "o", "r", " ", "c", "o", "n", "v", "e", "r", "t", "i", "n", "g", " ", "C", "S", "V", " ", "f", "i", "l", "e", ":", " " >>
                       \o << "C", "o", "u", "l", "d", " ", "n", "o", "t", " ", "r", "e", "a", "d", " ", "C", "S", "V", " ", "f", "i", "l", "e", " ", "w", "i", "t", "h", " ", "a", "n", "y", " ", "s", "u", "p", "p", "o", "r", "t", "e", "d", " ", "e", "n", "c", "o", "d", "i", "n", "g" >> ]
             ELSE LET df == got.df
                      metadata == IF include_metadata
                                  THEN CsvExtractMetadata(df, file.name) \o << << >> >>
                                  ELSE << >>
                      markdown_table == CsvDataframeToMarkdown(df)
                      summary == IF CsvHasNumericData(df)
                                 THEN << << >>, << "#", "#", " ", "S", "u", "m", "m", "a", "r", "y", " ", "S", "t", "a", "t", "i", "s", "t", "i", "c", "s" >>, << >> >>
                                      \o CsvCreateSummaryTable(df)
                                 ELSE << >>
                  IN  [ kind |-> "return", tried |-> got.tried, df |-> df,
                        table |-> markdown_table,
                        lines |-> metadata \o markdown_table \o summary ]

(***************************************************************************)
(* Character classes and str methods the plain-text parser uses.  Python   *)
(* counts the decoded characters U+00C1, U+00C3 as upper case, U+00E9 as   *)
(* lower case.                                                             *)
(***************************************************************************)
UpperChars == << "A", "B", "C", "D", "E", "F", "G", "H", "I", "J", "K", "L", "M", "N", "O", "P", "Q", "R", "S", "T", "U", "V", "W", "X", "Y", "Z",
                 "U+00C1", "U+00C3", "U+00C9" >>
LowerChars == << "a", "b", "c", "d", "e", "f", "g", "h", "i", "j", "k", "l", "m", "n", "o", "p", "q", "r", "s", "t", "u", "v", "w", "x", "y", "z",
                 "U+00E1", "U+00E3", "U+00E9" >>
AsciiLetters == { UpperChars[i] : i \in 1..26 } \cup { LowerChars[i] : i \in 1..26 }
Whitespace == { " ", "\t", "\r", "\n" }

\* \w of the re module
WordChars == Range(UpperChars) \cup Range(LowerChars) \cup Range(DigitChars)
                \cup { "_", "U+9041", "U+9069", "U+9A41", "U+9A69" }

CharIndex(seq, c) == CHOOSE i \in 1..Len(seq) : seq[i] = c
ToLower(c) == IF c \in Range(UpperChars) THEN LowerChars[CharIndex(UpperChars, c)] ELSE c
ToUpper(c) == IF c \in Range(LowerChars) THEN UpperChars[CharIndex(LowerChars, c)] ELSE c

\* s.lower()
Lower(s) == [ i \in 1..Len(s) |-> ToLower(s[i]) ]

\* s.isupper(): a cased character, and no lower-case one
IsUpper(s) ==
    /\ \E i \in 1..Len(s) : s[i] \in Range(UpperChars)
    /\ \A i \in 1..Len(s) : s[i] \notin Range(LowerChars)

\* s.title(): a cased character after a cased one is lowered, any other
\* cased character is raised
Title(s) ==
    LET cased(c) == c \in Range(UpperChars) \cup Range(LowerChars)
    IN  [ i \in 1..Len(s) |->
            IF i > 1 /\ cased(s[i - 1]) THEN ToLower(s[i]) ELSE ToUpper(s[i]) ]

\* s.strip()
Strip(s) ==
    LET keep == { i \in 1..Len(s) : s[i] \notin Whitespace }
    IN  IF keep = {} THEN << >>
        ELSE SubSeq(s, CHOOSE i \in keep : \A j \in keep : i <= j,
                       CHOOSE i \in keep : \A j \in keep : j <= i)

\* len(s.split())
WordCount(s) ==
    Cardinality({ i \in 1..Len(s) :
                    s[i] \notin Whitespace /\ (i = 1 \/ s[i - 1] \in Whitespace) })

\* s from position i on
From(s, i) == SubSeq(s, i, Len(s))

\* re.match(r'^\d+\.\s+', s)
MatchNumbered(s) ==
    \E k \in 1..(Len(s) - 2) :
        /\ \A j \in 1..k : s[j] \in Range(DigitChars)
        /\ s[k + 1] = "."
        /\ s[k + 2] \in Whitespace

\* re.match(r'^[-*+]\s+', s)
MatchBullet(s) == Len(s) >= 2 /\ s[1] \in { "-", "*", "+" } /\ s[2] \in Whitespace

\* re.match(r'^#{1,6}\s+', s)
MatchHashes(s) ==
    \E k \in 1..6 : k < Len(s) /\ (\A j \in 1..k : s[j] = "#") /\ s[k + 1] \in Whitespace

\* re.match(r'^[...]+$', s) for a character class
AllOf(s, class) == s # << >> /\ \A i \in 1..Len(s) : s[i] \in class

\* re.match(r'^    ', line) or re.match(r'^\t', line)
Indented(line) == StartsWith(line, << " ", " ", " ", " " >>) \/ StartsWith(line, << "\t" >>)

\* url_pattern at position i: the last position of the match, 0 for none
UrlMatchEnd(s, i) ==
    LET p == IF StartsWith(From(s, i), << "h", "t", "t", "p", ":", "/", "/" >>) THEN 7
             ELSE IF StartsWith(From(s, i), << "h", "t", "t", "p", "s", ":", "/", "/" >>) THEN 8
             ELSE 0
        stop == { j \in (i + p)..Len(s) : s[j] \in Whitespace }
    IN  IF p = 0 \/ i + p > Len(s) \/ s[i + p] \in Whitespace THEN 0
        ELSE IF stop = {} THEN Len(s)
        ELSE (CHOOSE j \in stop : \A k \in stop : j <= k) - 1

EmailLocalChars == AsciiLetters \cup Range(DigitChars) \cup { ".", "_", "%", "+", "-" }
EmailDomainChars == AsciiLetters \cup Range(DigitChars) \cup { ".", "-" }
EmailTldChars == AsciiLetters \cup { "|" }

\* \b before position k
WordBoundary(s, k) ==
    (k > 1 /\ s[k - 1] \in WordChars) # (k <= Len(s) /\ s[k] \in WordChars)

\* email_pattern at position i: the last position of the match, 0 for
\* none.  The domain part is greedy and gives back to the last dot that
\* leaves a top-level part, which is greedy in turn.
EmailMatchEnd(s, i) ==
    LET n == Len(s)
        ats == { a \in (i + 1)..n :
                   s[a] = "@" /\ \A j \in i..(a - 1) : s[j] \in EmailLocalChars }
        cand == { c \in ((i + 3)..n) \X ((i + 5)..n) :
                    \E a \in ats :
                        /\ c[1] >= a + 2
                        /\ c[2] >= c[1] + 2
                        /\ \A j \in (a + 1)..(c[1] - 1) : s[j] \in EmailDomainChars
                        /\ s[c[1]] = "."
                        /\ \A j \in (c[1] + 1)..c[2] : s[j] \in EmailTldChars
                        /\ WordBoundary(s, c[2] + 1) }
    IN  IF ~WordBoundary(s, i) \/ cand = {} THEN 0
        ELSE (CHOOSE c \in cand :
                \A d \in cand : d[1] < c[1] \/ (d[1] = c[1] /\ d[2] <= c[2]))[2]

\* re.sub(pattern, replacement, s) from position pos on, ends[i] being the
\* end of the match that starts at i
RECURSIVE ReSub(_, _, _, _)
ReSub(s, ends, scheme, pos) ==
    IF pos > Len(s) THEN << >>
    ELSE IF ends[pos] = 0 THEN << s[pos] >> \o ReSub(s, ends, scheme, pos + 1)
    ELSE LET m == SubSeq(s, pos, ends[pos])
         IN  << "[" >> \o m \o << "]", "(" >> \o scheme \o m \o << ")" >>
                \o ReSub(s, ends, scheme, ends[pos] + 1)

(***************************************************************************)
(* TxtConverter                                                            *)
(***************************************************************************)
TxtEncodings == << "utf-8", "latin-1", "cp1252", "ascii" >>

\* content.decode('utf-8', errors='replace'), line by line
DecodeUtf8Replace(content) ==
    [ i \in 1..Len(content) |->
        IF DecodeUtf8(content[i]).ok THEN DecodeUtf8(content[i]).text
        ELSE [ k \in 1..Len(content[i]) |->
                 IF content[i][k] \in HighBytes THEN "U+FFFD" ELSE content[i][k] ] ]

\* _read_with_encoding with the lossy decoding right after UTF-8
TxtReadWithEncodingLossy(content) ==
    IF Decode(content, "utf-8").ok
    THEN [ encoding |-> "utf-8", tried |-> 1, text |-> Decode(content, "utf-8").text ]
    ELSE [ encoding |-> "utf-8-replace", tried |-> 1, text |-> DecodeUtf8Replace(content) ]

\* _read_with_encoding: the text in the first encoding that decodes
TxtReadWithEncoding(content) ==
    LET fits == { k \in 1..Len(TxtEncodings) : Decode(content, TxtEncodings[k]).ok }
        first == CHOOSE k \in fits : \A j \in fits : k <= j
    IN  IF fits # {}
        THEN [ encoding |-> TxtEncodings[first], tried |-> first,
               text |-> Decode(content, TxtEncodings[first]).text ]
        ELSE [ encoding |-> "utf-8-replace", tried |-> Len(TxtEncodings),
               text |-> DecodeUtf8Replace(content) ]

\* _detect_structure: the type, << >> for None
TxtDetectStructure(lines) ==
    LET count(Match(_)) == Cardinality({ i \in 1..Len(lines) : Match(Strip(lines[i])) })
        fields == { << "f", "r", "o", "m", ":" >>, << "t", "o", ":" >>, << "s", "u", "b", "j", "e", "c", "t", ":" >>, << "d", "a", "t", "e", ":" >> }
        words == { << "f", "u", "n", "c", "t", "i", "o", "n" >>, << "c", "l", "a", "s", "s" >>, << "d", "e", "f" >>, << "i", "m", "p", "o", "r", "t" >>, << "#", "i", "n", "c", "l", "u", "d", "e" >> }
    IN  IF count(MatchHashes) > 0 THEN << "m", "a", "r", "k", "d", "o", "w", "n", "-", "l", "i", "k", "e" >>
        ELSE IF count(MatchNumbered) > 2 THEN << "n", "u", "m", "b", "e", "r", "e", "d", "-", "l", "i", "s", "t" >>
        ELSE IF count(MatchBullet) > 2 THEN << "b", "u", "l", "l", "e", "t", "-", "l", "i", "s", "t" >>
        ELSE IF \E i \in 1..Len(lines) : \E f \in fields : StartsWith(Lower(lines[i]), f)
        THEN << "e", "m", "a", "i", "l", "-", "l", "i", "k", "e" >>
        ELSE IF \E i \in 1..Len(lines) : \E w \in words : Contains(Lower(lines[i]), w)
        THEN << "c", "o", "d", "e", "-", "l", "i", "k", "e" >>
        ELSE << >>

\* _extract_metadata without its last append
TxtExtractMetadataOpen(filename, lines) ==
    << << "-", "-", "-" >>,
       << "t", "i", "t", "l", "e", ":", " ", "\"" >> \o filename \o << "\"" >> >>

\* _extract_metadata
TxtExtractMetadata(filename, lines) ==
    LET content == Join(lines, << "\n" >>)
        word_count == Cardinality({ i \in 1..Len(content) :
                         content[i] \notin Whitespace \cup { "\n" }
                            /\ (i = 1 \/ content[i - 1] \in Whitespace \cup { "\n" }) })
        structure_type == TxtDetectStructure(lines)
    IN  << << "-", "-", "-" >>,
           << "t", "i", "t", "l", "e", ":", " ", "\"" >> \o filename \o << "\"" >>,
           << "s", "o", "u", "r", "c", "e", "_", "f", "o", "r", "m", "a", "t", ":", " ", "\"", "T", "X", "T", "\"" >>,
           << "l", "i", "n", "e", "s", ":", " " >> \o DecStr(Len(lines)),
           << "w", "o", "r", "d", "s", ":", " " >> \o DecStr(word_count),
           << "c", "h", "a", "r", "a", "c", "t", "e", "r", "s", ":", " " >> \o DecStr(Len(content)) >>
        \o (IF structure_type # << >>
            THEN << << "s", "t", "r", "u", "c", "t", "u", "r", "e", ":", " ", "\"" >> \o structure_type \o << "\"" >> >>
            ELSE << >>)
        \o << << "-", "-", "-" >> >>

\* three grave accents (U+0060)
Fence == << "U+0060", "U+0060", "U+0060" >>

\* _process_line with the indentation check ahead of the other checks
TxtProcessLineIndentFirst(line, index, all_lines) ==
    LET stripped_line == Strip(line)
        last == Len(all_lines)
        next_line == IF index < last THEN Strip(all_lines[index + 1]) ELSE << >>
        underlines == 10 * Len(next_line) >= 7 * Len(stripped_line)
        url_ends == [ i \in 1..Len(stripped_line) |->
                        IF \E j \in 1..(i - 1) : UrlMatchEnd(stripped_line, j) >= i
                        THEN 0 ELSE UrlMatchEnd(stripped_line, i) ]
        email_ends == [ i \in 1..Len(stripped_line) |-> EmailMatchEnd(stripped_line, i) ]
    IN  IF stripped_line = << >> THEN << << >> >>
        ELSE IF Indented(line)
        THEN IF index = 1 \/ ~Indented(all_lines[index - 1]) THEN << Fence, line >>
             ELSE IF index = last \/ ~Indented(all_lines[index + 1]) THEN << line, Fence >>
             ELSE << line >>
        ELSE IF index < last /\ AllOf(next_line, { "=" }) /\ underlines
        THEN << << "#", " " >> \o stripped_line >>
        ELSE IF index < last /\ AllOf(next_line, { "-" }) /\ underlines
        THEN << << "#", "#", " " >> \o stripped_line >>
        ELSE IF AllOf(stripped_line, { "=", "-" }) THEN << >>
        ELSE IF MatchNumbered(stripped_line) THEN << stripped_line >>
        ELSE IF MatchBullet(stripped_line) THEN << stripped_line >>
        ELSE IF /\ IsUpper(stripped_line)
                /\ Len(stripped_line) < 80
                /\ WordCount(stripped_line) <= 10
                /\ stripped_line[Len(stripped_line)] \notin { ".", "!", "?" }
        THEN << << "#", "#", " " >> \o Title(stripped_line) >>
        ELSE IF \E i \in 1..Len(stripped_line) : url_ends[i] # 0
        THEN << ReSub(stripped_line, url_ends, << >>, 1) >>
        ELSE IF \E i \in 1..Len(stripped_line) : email_ends[i] # 0
        THEN << ReSub(stripped_line, email_ends, << "m", "a", "i", "l", "t", "o", ":" >>, 1) >>
        ELSE << stripped_line >>

\* _process_line: the output lines the input line at index gives (none for
\* None, two for a line returned with a fence)
TxtProcessLine(line, index, all_lines) ==
    LET stripped_line == Strip(line)
        last == Len(all_lines)
        next_line == IF index < last THEN Strip(all_lines[index + 1]) ELSE << >>
        underlines == 10 * Len(next_line) >= 7 * Len(stripped_line)
        url_ends == [ i \in 1..Len(stripped_line) |->
                        IF \E j \in 1..(i - 1) : UrlMatchEnd(stripped_line, j) >= i
                        THEN 0 ELSE UrlMatchEnd(stripped_line, i) ]
        email_ends == [ i \in 1..Len(stripped_line) |-> EmailMatchEnd(stripped_line, i) ]
    IN  IF stripped_line = << >> THEN << << >> >>
        ELSE IF index < last /\ AllOf(next_line, { "=" }) /\ underlines
        THEN << << "#", " " >> \o stripped_line >>
        ELSE IF index < last /\ AllOf(next_line, { "-" }) /\ underlines
        THEN << << "#", "#", " " >> \o stripped_line >>
        ELSE IF AllOf(stripped_line, { "=", "-" }) THEN << >>
        ELSE IF MatchNumbered(stripped_line) THEN << stripped_line >>
        ELSE IF MatchBullet(stripped_line) THEN << stripped_line >>
        ELSE IF /\ IsUpper(stripped_line)
                /\ Len(stripped_line) < 80
                /\ WordCount(stripped_line) <= 10
                /\ stripped_line[Len(stripped_line)] \notin { ".", "!", "?" }
        THEN << << "#", "#", " " >> \o Title(stripped_line) >>
        ELSE IF Indented(line)
        THEN IF index = 1 \/ ~Indented(all_lines[index - 1]) THEN << Fence, line >>
             ELSE IF index = last \/ ~Indented(all_lines[index + 1]) THEN << line, Fence >>
             ELSE << line >>
        ELSE IF \E i \in 1..Len(stripped_line) : url_ends[i] # 0
        THEN << ReSub(stripped_line, url_ends, << >>, 1) >>
        ELSE IF \E i \in 1..Len(stripped_line) : email_ends[i] # 0
        THEN << ReSub(stripped_line, email_ends, << "m", "a", "i", "l", "t", "o", ":" >>, 1) >>
        ELSE << stripped_line >>

\* _process_text_content
TxtProcessTextContent(lines) ==
    Join([ i \in 1..Len(lines) |-> TxtProcessLine(lines[i], i, lines) ], << >>)

\* TxtConverter.convert: the lines of the Markdown it returns, or the
\* message of the exception it raises
TxtConverterConvert(file, include_metadata) ==
    IF file.fails = "open"
    THEN [ kind |-> "raise", message |-> << "E", "r", "r", "o", "r", " ", "c", "o", "n", "v", "e", "r", "t", "i", "n", "g", " ", "T", "X", "T", " ", "f", "i", "l", "e", ":", " " >> \o ReadErrorText ]
    ELSE LET content == TxtReadWithEncoding(file.content)
             metadata == IF include_metadata
                         THEN TxtExtractMetadata(file.name, content.text) \o << << >> >>
                         ELSE << >>
         IN  [ kind |-> "return", encoding |-> content.encoding,
               text |-> content.text,
               lines |-> metadata \o TxtProcessTextContent(content.text) ]

(***************************************************************************)
(* Plain-text inputs of SpecText                                           *)
(***************************************************************************)
TxtFile(name, fails, content) ==
    [ name |-> name, type |-> "txt", fails |-> fails, content |-> content ]

MaxLines == 2

NameTxt == << "n", "o", "t", "e", "s", ".", "t", "x", "t" >>

\* lines of a text file: blank, a title, underlines of = and of -, a
\* too short underline, indented lines, capitals, list items, a link, an
\* address, a heading, a mail header, a keyword, bytes outside ASCII
TxtLines ==
    { << >>, << "T", "i", "t", "l", "e" >>, << "=", "=", "=", "=", "=" >>, << "-", "-", "-" >>, << "-", "-" >>, << " ", " ", " ", " ", "c", "o", "d", "e" >>, << "\t", "x" >>,
      << " ", " ", " ", " ", "-", "-", "-" >>, << "N", "E", "W", " ", "P", "L", "A", "N" >>, << " ", " ", " ", " ", "-", " ", "i", "t", "e", "m" >>, << "1", ".", " ", "o", "n", "e" >>,
      << "s", "e", "e", " ", "h", "t", "t", "p", ":", "/", "/", "a", ".", "b", "/", "c", " ", "a", "n", "d", " ", "h", "t", "t", "p", "s", ":", "/", "/", "d" >>, << "a", "s", "k", " ", "B", "o", "b", ".", "R", "a", "y", "@", "x", "-", "y", ".", "c", "o", ".", "u", "k", "|", "." >>,
      << "#", " ", "h", "e", "a", "d" >>, << "T", "o", ":", " ", "y", "o", "u" >>, << "i", "m", "p", "o", "r", "t", " ", "o", "s" >>, << "x", "xE9" >>, << "xC3", "xA9" >> }

\* files of up to MaxLines lines, and longer ones: a run of underlines,
\* runs of indented lines, three list items, bytes that are no UTF-8,
\* indented capitals and list items
TxtContents ==
    (SeqsUpTo(TxtLines, MaxLines) \ { << >> })
    \cup { << << "T", "i", "t", "l", "e" >>, << "-", "-", "-" >>, << "-", "-", "-" >>, << "=", "=", "=" >>, << "-", "-", "-" >> >>,
           << << " ", " ", " ", " ", "a" >>, << " ", " ", " ", " ", "b" >>, << " ", " ", " ", " ", "c" >>, << "d" >>, << " ", " ", " ", " ", "e" >> >>,
           << << "-", " ", "a" >>, << "*", " ", "b" >>, << "+", " ", "c" >>, << "-", "-", "-" >>, << >> >>,
           << << "1", ".", " ", "a" >>, << "2", ".", " ", "b" >>, << "3", ".", " ", "c" >> >>,
           << << "x81", "xE9" >>, << "xC3" >> >>,
           << << " ", " ", " ", " ", "N", "E", "W", " ", "P", "L", "A", "N" >>, << " ", " ", " ", " ", "-", " ", "i", "t", "e", "m" >>, << "\t", "T", "O", "P" >>, << "=", "=", "=", "=" >>, << " ", " ", " ", " ", "2", ".", " ", "t", "w", "o" >> >> }

TxtFiles ==
    { TxtFile(NameTxt, "none", c) : c \in TxtContents }
    \cup { TxtFile(NameTxt, "open", << << >> >>) }

(***************************************************************************)
(* DocxConverter, the text it renders.  A document is what python-docx     *)
(* reads of it: the core properties, the paragraphs with their style,      *)
(* alignment and runs, the tables with the text of their cells.            *)
(***************************************************************************)
\* str(n) padded with zeros to w digits
RECURSIVE Pad(_, _)
Pad(n, w) == IF w = 0 THEN << >> ELSE Pad(n \div 10, w - 1) \o << DigitChars[(n % 10) + 1] >>

DateTime(year, month, day, hour, minute, second, microsecond) ==
    [ year |-> year, month |-> month, day |-> day, hour |-> hour,
      minute |-> minute, second |-> second, microsecond |-> microsecond ]

\* datetime.isoformat()
IsoFormat(dt) ==
    Pad(dt.year, 4) \o << "-" >> \o Pad(dt.month, 2) \o << "-" >> \o Pad(dt.day, 2)
       \o << "T" >> \o Pad(dt.hour, 2) \o << ":" >> \o Pad(dt.minute, 2)
       \o << ":" >> \o Pad(dt.second, 2)
       \o (IF dt.microsecond # 0 THEN << "." >> \o Pad(dt.microsecond, 6) ELSE << >>)

Quoted(key, value) == key \o << ":", " ", "\"" >> \o value \o << "\"" >>

\* _extract_metadata; a property that is not set is << >> or NoValue
DocxExtractMetadata(props, filename) ==
    << << "-", "-", "-" >>, Quoted(<< "t", "i", "t", "l", "e" >>, filename), << "s", "o", "u", "r", "c", "e", "_", "f", "o", "r", "m", "a", "t", ":", " ", "\"", "D", "O", "C", "X", "\"" >> >>
    \o (IF props.author # << >> THEN << Quoted(<< "a", "u", "t", "h", "o", "r" >>, props.author) >> ELSE << >>)
    \o (IF props.created # NoValue
        THEN << Quoted(<< "c", "r", "e", "a", "t", "e", "d" >>, IsoFormat(props.created)) >> ELSE << >>)
    \o (IF props.modified # NoValue
        THEN << Quoted(<< "m", "o", "d", "i", "f", "i", "e", "d" >>, IsoFormat(props.modified)) >> ELSE << >>)
    \o (IF props.subject # << >> THEN << Quoted(<< "s", "u", "b", "j", "e", "c", "t" >>, props.subject) >> ELSE << >>)
    \o << << "-", "-", "-" >> >>

Run(text, bold, italic, underline) ==
    [ text |-> text, bold |-> bold, italic |-> italic, underline |-> underline ]

Paragraph(style, alignment, runs) ==
    [ style |-> style, alignment |-> alignment, runs |-> runs ]

\* _process_runs
DocxProcessRuns(runs) ==
    LET emphasis(run) == IF run.bold /\ run.italic THEN << "*", "*", "*" >>
                         ELSE IF run.bold THEN << "*", "*" >>
                         ELSE IF run.italic THEN << "*" >>
                         ELSE << >>
        marked(run) == emphasis(run) \o run.text \o emphasis(run)
        text(run) == IF run.underline THEN << "<", "u", ">" >> \o marked(run) \o << "<", "/", "u", ">" >>
                     ELSE marked(run)
    IN  Join([ i \in 1..Len(runs) |-> text(runs[i]) ], << >>)

\* _convert_paragraph: the line, << >> for a paragraph without text
DocxConvertParagraph(paragraph) ==
    LET paragraph_text == Join([ i \in 1..Len(paragraph.runs) |-> paragraph.runs[i].text ], << >>)
        text == Strip(paragraph_text)
        style_name == Lower(paragraph.style)
        numbered == { l \in 1..6 : Contains(style_name, << "h", "e", "a", "d", "i", "n", "g", " " >> \o DecStr(l)) }
        level == IF numbered = {} THEN 1 ELSE CHOOSE l \in numbered : \A k \in numbered : l <= k
        aligned == IF paragraph.alignment = "CENTER" THEN << "<", "c", "e", "n", "t", "e", "r", ">" >> \o text \o << "<", "/", "c", "e", "n", "t", "e", "r", ">" >>
                   ELSE IF paragraph.alignment = "RIGHT"
                   THEN << "<", "d", "i", "v", " ", "a", "l", "i", "g", "n", "=", "'", "r", "i", "g", "h", "t", "'", ">" >> \o text \o << "<", "/", "d", "i", "v", ">" >>
                   ELSE text
        formatted_text == DocxProcessRuns(paragraph.runs)
    IN  IF text = << >> THEN << >>
        ELSE IF Contains(style_name, << "h", "e", "a", "d", "i", "n", "g" >>)
        THEN [ i \in 1..level |-> "#" ] \o << " " >> \o text
        ELSE IF Strip(formatted_text) # << >> THEN formatted_text
        ELSE aligned

\* _convert_table: a table is the rows of the text of its cells
DocxConvertTable(table) ==
    LET cells(row) == [ i \in 1..Len(row) |-> Strip(row[i]) ]
        any(row) == \E i \in 1..Len(row) : cells(row)[i] # << >>
        body == SelectSeq(Tail(table), any)
    IN  IF table = << >> \/ ~any(table[1]) THEN << >>
        ELSE << TableRow(cells(table[1])), SeparatorRow(Len(table[1])) >>
                \o [ i \in 1..Len(body) |-> TableRow(cells(body[i])) ]

NotZipText == << "F", "i", "l", "e", " ", "i", "s", " ", "n", "o", "t", " ", "a", " ", "z", "i", "p", " ", "f", "i", "l", "e" >>

\* DocxConverter.convert(file, include_metadata) with no image handler
DocxConverterConvert(file, include_metadata) ==
    IF file.fails = "open"
    THEN [ kind |-> "raise", message |-> << "E", "r", "r", "o", "r", " ", "c", "o", "n", "v", "e", "r", "t", "i", "n", "g", " ", "D", "O", "C", "X", " ", "f", "i", "l", "e", ":", " " >> \o NotZipText ]
    ELSE LET metadata == IF include_metadata
                         THEN DocxExtractMetadata(file.props, file.name) \o << << >> >>
                         ELSE << >>
             paragraphs == SelectSeq(
                 [ i \in 1..Len(file.paragraphs) |-> DocxConvertParagraph(file.paragraphs[i]) ],
                 LAMBDA markdown_line : markdown_line # << >>)
             tables == Join(
                 [ i \in 1..Len(file.tables) |->
                     IF DocxConvertTable(file.tables[i]) # << >>
                     THEN DocxConvertTable(file.tables[i]) \o << << >> >>
                     ELSE << >> ], << >>)
         IN  [ kind |-> "return", lines |-> metadata \o paragraphs \o tables ]

(***************************************************************************)
(* WxrConverter, the text it renders.  An export is what the parser reads  *)
(* of it: the channel's title and link, and the items with their fields;   *)
(* a body or an excerpt is the sequence of its top-level HTML nodes.  A    *)
(* field that is absent is Missing or << >>.  Every element of the input   *)
(* files stands on one line, and only bodies and authors are wrapped in    *)
(* CDATA.                                                                  *)
(***************************************************************************)
Heading(level, text) == [ tag |-> "h", level |-> level, text |-> text, src |-> << >>, alt |-> << >> ]
Para(text) == [ tag |-> "p", level |-> 0, text |-> text, src |-> << >>, alt |-> << >> ]
Img(src, alt) == [ tag |-> "img", level |-> 0, text |-> << >>, src |-> src, alt |-> alt ]
Text(text) == [ tag |-> "text", level |-> 0, text |-> text, src |-> << >>, alt |-> << >> ]

NewLines == << "\n", "\n" >>

\* _convert_html_elements: what get_text() returns for one node once the
\* elements are replaced; no image handler is set
WxrConvertHtmlElement(e) ==
    CASE e.tag = "h" -> [ i \in 1..e.level |-> "#" ] \o << " " >> \o Strip(e.text) \o NewLines
      [] e.tag = "p" -> Strip(e.text) \o NewLines
      [] e.tag = "img" -> IF e.src # << >>
                          THEN << "!", "[" >> \o e.alt \o << "]", "(" >> \o e.src \o << ")" >> \o NewLines
                          ELSE << >>
      [] OTHER -> e.text

\* r"\n(#{1,6}\s+.*?)\n" at position i: the last position of the match, 0
\* for none.  The white space is greedy and gives back to its last line
\* feed when no line feed follows the text.
HeaderMatchEnd(s, i) ==
    LET n == Len(s)
        hashes == { k \in 1..6 : i + k <= n /\ \A j \in 1..k : s[i + j] = "#" }
        k == CHOOSE h \in hashes : \A g \in hashes : g <= h
        others == { j \in (i + k + 1)..n : s[j] \notin Whitespace }
        w == IF others = {} THEN n + 1 ELSE CHOOSE j \in others : \A g \in others : j <= g
        after == { j \in w..n : s[j] = "\n" }
        inside == { j \in (i + k + 2)..(w - 1) : s[j] = "\n" }
    IN  IF s[i] # "\n" \/ hashes = {} THEN 0
        ELSE IF i + k + 1 > n \/ s[i + k + 1] \notin Whitespace THEN 0
        ELSE IF after # {} THEN CHOOSE j \in after : \A g \in after : j <= g
        ELSE IF inside # {} THEN CHOOSE j \in inside : \A g \in inside : g <= j
        ELSE 0

\* re.sub(r"\n(#{1,6}\s+.*?)\n", r"\n\n\1\n\n", s) from position pos on
RECURSIVE HeaderSub(_, _)
HeaderSub(s, pos) ==
    IF pos > Len(s) THEN << >>
    ELSE IF HeaderMatchEnd(s, pos) = 0 THEN << s[pos] >> \o HeaderSub(s, pos + 1)
    ELSE NewLines \o SubSeq(s, pos + 1, HeaderMatchEnd(s, pos) - 1) \o NewLines
            \o HeaderSub(s, HeaderMatchEnd(s, pos) + 1)

\* _clean_markdown
WxrCleanMarkdown(content) ==
    LET kept == SelectSeq([ i \in 1..Len(content) |-> i ],
                   LAMBDA i : ~(i > 2 /\ content[i] = "\n" /\ content[i - 1] = "\n"
                                  /\ content[i - 2] = "\n"))
        squeezed == [ j \in 1..Len(kept) |-> content[kept[j]] ]
    IN  HeaderSub(Strip(squeezed), 1)

\* _html_to_markdown
WxrHtmlToMarkdown(html_content) ==
    IF html_content = << >> THEN << >>
    ELSE WxrCleanMarkdown(
             Join([ i \in 1..Len(html_content) |-> WxrConvertHtmlElement(html_content[i]) ],
                  << >>))

\* an element the item does not have
Missing == << "None" >>

Or(value, default) == IF value = Missing THEN default ELSE value

\* _clean_xml_content: every & that opens none of the five entities is
\* escaped (the inputs hold no control character)
WxrCleanXmlContent(content) ==
    LET entities == { << "a", "m", "p", ";" >>, << "l", "t", ";" >>, << "g", "t", ";" >>, << "q", "u", "o", "t", ";" >>, << "a", "p", "o", "s", ";" >> }
        escaped(i) == IF content[i] = "&" /\ ~\E e \in entities : StartsWith(From(content, i + 1), e)
                      THEN << "&", "a", "m", "p", ";" >>
                      ELSE << content[i] >>
    IN  Join([ i \in 1..Len(content) |-> escaped(i) ], << >>)

\* the text of an element as ET.fromstring reads it: the inside of a CDATA
\* section as it stands, other text with its entities resolved
XmlText(raw) ==
    IF StartsWith(raw, << "<", "!", "[", "C", "D", "A", "T", "A", "[" >>) /\ EndsWith(raw, << "]", "]", ">" >>) /\ Len(raw) >= 12
    THEN SubSeq(raw, 10, Len(raw) - 3)
    ELSE LET entities == { << << "&", "l", "t", ";" >>, "<" >>, << << "&", "g", "t", ";" >>, ">" >>, << << "&", "q", "u", "o", "t", ";" >>, "\"" >>,
                           << << "&", "a", "p", "o", "s", ";" >>, "'" >>, << << "&", "a", "m", "p", ";" >>, "&" >> }
             at(j) == { e \in entities : StartsWith(From(raw, j), e[1]) }
             resolved(i) ==
                 IF at(i) # {} THEN << (CHOOSE e \in at(i) : TRUE)[2] >>
                 ELSE IF \E j \in 1..(i - 1) : \E e \in at(j) : j + Len(e[1]) > i THEN << >>
                 ELSE << raw[i] >>
         IN  Join([ i \in 1..Len(raw) |-> resolved(i) ], << >>)

\* an optional field of an item, through a conversion of its text
Through(value, conversion(_)) == IF value = Missing THEN Missing ELSE conversion(value)

\* _extract_post_data, from the tree parsed from the cleaned text (of the
\* fields of the inputs, titles alone carry markup)
WxrExtractPostData(item) ==
    [ title |-> Or(Through(item.title, LAMBDA t : XmlText(WxrCleanXmlContent(t))), << "U", "n", "t", "i", "t", "l", "e", "d" >>), link |-> item.link,
      post_type |-> Or(item.post_type, << "p", "o", "s", "t" >>), status |-> Or(item.status, << "p", "u", "b", "l", "i", "s", "h" >>),
      date |-> item.date, content |-> item.content, excerpt |-> item.excerpt,
      author |-> item.author, categories |-> item.categories, tags |-> item.tags ]

\* _parse_wxr_with_regex, one item: only the title, the body, the date
\* and the author are read, body and author only from a CDATA section
WxrRegexPostData(item) ==
    [ title |-> Or(Through(item.title, WxrCleanXmlContent), << "U", "n", "t", "i", "t", "l", "e", "d" >>), link |-> << >>,
      post_type |-> << >>, status |-> << >>,
      date |-> item.date,
      content |-> IF item.cdata THEN item.content ELSE << >>,
      excerpt |-> << >>,
      author |-> IF item.cdata THEN item.author ELSE << >>,
      categories |-> << >>, tags |-> << >> ]

\* _parse_wxr_content: the posts, by the XML parser or after a ParseError
\* by the regular expressions
WxrParseContent(file) ==
    LET post(i) == IF file.wellformed THEN WxrExtractPostData(file.items[i])
                   ELSE WxrRegexPostData(file.items[i])
    IN  SelectSeq([ i \in 1..Len(file.items) |-> post(i) ],
                  LAMBDA post_data : post_data.content # << >>)

\* the first <title> (or <link>) element of the text, the channel's or
\* else an item's
FirstElement(channel_value, item_values) ==
    LET given == SelectSeq(<< channel_value >> \o item_values, LAMBDA v : v # Missing)
    IN  IF given = << >> THEN Missing ELSE given[1]

\* _extract_site_metadata; now is datetime.now()
WxrExtractSiteMetadata(file, now) ==
    LET site_title == FirstElement(file.channel.title,
                         [ i \in 1..Len(file.items) |-> file.items[i].title ])
        site_url == FirstElement(file.channel.link,
                         [ i \in 1..Len(file.items) |->
                             IF file.items[i].link = << >> THEN Missing ELSE file.items[i].link ])
        count(type) == Cardinality({ i \in 1..Len(file.items) : file.items[i].post_type = type })
    IN  << << "-", "-", "-" >>,
           Quoted(<< "t", "i", "t", "l", "e" >>, << "W", "o", "r", "d", "P", "r", "e", "s", "s", " ", "E", "x", "p", "o", "r", "t", " ", "-", " " >> \o file.name),
           << "s", "o", "u", "r", "c", "e", "_", "f", "o", "r", "m", "a", "t", ":", " ", "\"", "W", "X", "R", "\"" >>,
           Quoted(<< "e", "x", "p", "o", "r", "t", "_", "d", "a", "t", "e" >>, IsoFormat(now)) >>
        \o (IF site_title # Missing THEN << Quoted(<< "s", "i", "t", "e", "_", "t", "i", "t", "l", "e" >>, site_title) >> ELSE << >>)
        \o (IF site_url # Missing THEN << Quoted(<< "s", "i", "t", "e", "_", "u", "r", "l" >>, site_url) >> ELSE << >>)
        \o << << "p", "o", "s", "t", "s", ":", " " >> \o DecStr(count(<< "p", "o", "s", "t" >>)),
              << "p", "a", "g", "e", "s", ":", " " >> \o DecStr(count(<< "p", "a", "g", "e" >>)),
              << "-", "-", "-" >> >>

\* str(list) of strings without quotes or backslashes
ReprList(items) ==
    << "[" >> \o Join([ i \in 1..Len(items) |-> << "'" >> \o items[i] \o << "'" >> ], << ",", " " >>)
       \o << "]" >>

\* _convert_post_to_markdown: the strings appended, each cut at its line
\* feeds
WxrConvertPostToMarkdown(post, include_metadata) ==
    LET field(key, value) == IF value # << >> THEN << Quoted(key, value) >> ELSE << >>
        list(key, items) == IF items # << >> THEN << key \o << ":", " " >> \o ReprList(items) >>
                            ELSE << >>
        metadata == << << "-", "-", "-" >>, Quoted(<< "t", "i", "t", "l", "e" >>, post.title) >>
                    \o field(<< "d", "a", "t", "e" >>, post.date)
                    \o field(<< "a", "u", "t", "h", "o", "r" >>, post.author)
                    \o field(<< "t", "y", "p", "e" >>, post.post_type)
                    \o field(<< "s", "t", "a", "t", "u", "s" >>, post.status)
                    \o list(<< "c", "a", "t", "e", "g", "o", "r", "i", "e", "s" >>, post.categories)
                    \o list(<< "t", "a", "g", "s" >>, post.tags)
                    \o field(<< "o", "r", "i", "g", "i", "n", "a", "l", "_", "u", "r", "l" >>, post.link)
                    \o << << "-", "-", "-" >>, << >> >>
        excerpt == IF \E i \in 1..Len(post.excerpt) :
                            post.excerpt[i].tag # "text" \/ Strip(post.excerpt[i].text) # << >>
                   THEN Split(<< "*" >> \o Strip(WxrHtmlToMarkdown(post.excerpt)) \o << "*" >>, "\n")
                           \o << << >> >>
                   ELSE << >>
    IN  (IF include_metadata THEN metadata ELSE << >>)
        \o << << "#", " " >> \o post.title, << >> >>
        \o excerpt
        \o Split(WxrHtmlToMarkdown(post.content), "\n")

\* WxrConverter.convert(file, include_metadata) with no image handler
WxrConverterConvert(file, include_metadata, now) ==
    IF file.fails = "open"
    THEN [ kind |-> "raise", message |-> << "E", "r", "r", "o", "r", " ", "c", "o", "n", "v", "e", "r", "t", "i", "n", "g", " ", "W", "X", "R", " ", "f", "i", "l", "e", ":", " " >> \o ReadErrorText ]
    ELSE LET posts == WxrParseContent(file)
             metadata == IF include_metadata
                         THEN WxrExtractSiteMetadata(file, now) \o << << >> >>
                         ELSE << >>
             section(i) == (IF i > 1 THEN << << >>, << "-", "-", "-" >>, << >> >> ELSE << >>)
                              \o WxrConvertPostToMarkdown(posts[i], include_metadata)
         IN  [ kind |-> "return", posts |-> posts,
               lines |-> metadata \o Join([ i \in 1..Len(posts) |-> section(i) ], << >>) ]

(***************************************************************************)
(* Styled documents and exports of SpecText                                *)
(***************************************************************************)
DocxDocument(name, fails, props, paragraphs, tables) ==
    [ name |-> name, type |-> "docx", fails |-> fails, props |-> props,
      paragraphs |-> paragraphs, tables |-> tables ]

Item(title, link, post_type, status, date, author, categories, tags, excerpt, content, cdata) ==
    [ title |-> title, link |-> link, post_type |-> post_type, status |-> status,
      date |-> date, author |-> author, categories |-> categories, tags |-> tags,
      excerpt |-> excerpt, content |-> content, cdata |-> cdata ]

WxrExport(name, fails, wellformed, channel, items) ==
    [ name |-> name, type |-> "wxr", fails |-> fails, wellformed |-> wellformed,
      channel |-> channel, items |-> items ]

MaxPosts == 2

NameDocx == << "r", "e", "p", "o", "r", "t", ".", "d", "o", "c", "x" >>
NameWxr == << "b", "l", "o", "g", ".", "x", "m", "l" >>

Moments == { DateTime(2024, 1, 2, 3, 4, 5, 0), DateTime(2025, 12, 31, 23, 59, 59, 123456) }

DocxProps ==
    { [ author |-> << >>, created |-> NoValue, modified |-> NoValue, subject |-> << >> ],
      [ author |-> << "A", "n", "n" >>, created |-> DateTime(2024, 1, 2, 3, 4, 5, 0),
        modified |-> DateTime(2024, 2, 3, 4, 5, 6, 0), subject |-> << "P", "l", "a", "n" >> ],
      [ author |-> << >>, created |-> NoValue,
        modified |-> DateTime(2024, 2, 3, 4, 5, 6, 0), subject |-> << >> ] }

\* paragraphs: plain, a heading, a rule typed as text, blank, centred
\* plain and bold, right-aligned without runs' text, a heading of level 7
DocxParagraphs ==
    { Paragraph(<< "N", "o", "r", "m", "a", "l" >>, "LEFT", << Run(<< "H", "e", "l", "l", "o" >>, FALSE, FALSE, FALSE) >>),
      Paragraph(<< "H", "e", "a", "d", "i", "n", "g", " ", "2" >>, "CENTER", << Run(<< "I", "n", "t", "r", "o" >>, FALSE, FALSE, FALSE) >>),
      Paragraph(<< "N", "o", "r", "m", "a", "l" >>, "None", << Run(<< "-", "-", "-" >>, FALSE, FALSE, FALSE) >>),
      Paragraph(<< "N", "o", "r", "m", "a", "l" >>, "LEFT", << Run(<< " ", " " >>, FALSE, FALSE, FALSE) >>),
      Paragraph(<< "N", "o", "r", "m", "a", "l" >>, "CENTER", << Run(<< "M", "i", "d" >>, FALSE, FALSE, FALSE) >>),
      Paragraph(<< "N", "o", "r", "m", "a", "l" >>, "RIGHT",
                << Run(<< "a", " " >>, TRUE, FALSE, FALSE), Run(<< "b" >>, TRUE, TRUE, TRUE) >>),
      Paragraph(<< "H", "e", "a", "d", "i", "n", "g", " ", "7" >>, "None", << Run(<< "D", "e", "e", "p" >>, FALSE, TRUE, FALSE) >>) }

DocxTables ==
    { << >>,
      << << << << "H", "1" >>, << " ", "H", "2", " " >> >>, << << "1" >>, << >> >>, << << >>, << >> >> >>,
         << << << >>, << >> >>, << << "x" >>, << "y" >> >> >> >> }

DocxDocuments ==
    { DocxDocument(NameDocx, "none", p, ps, t) :
        p \in DocxProps, ps \in SeqsUpTo(DocxParagraphs, MaxLines), t \in DocxTables }
    \cup { DocxDocument(NameDocx, "open", CHOOSE p \in DocxProps : p.author # << >>, << >>, << >>) }

\* items: a post with every field, a page with few, an item without a
\* body (no post), a post whose body has a paragraph --- and an image
\* without src
WxrItems ==
    { Item(<< "H", "e", "l", "l", "o" >>, << "h", "t", "t", "p", ":", "/", "/", "b", ".", "l", "o", "g", "/", "?", "p", "=", "1" >>, << "p", "o", "s", "t" >>, << "p", "u", "b", "l", "i", "s", "h" >>, << "2", "0", "2", "4", "-", "0", "1", "-", "0", "2", " ", "0", "3", ":", "0", "4", ":", "0", "5" >>,
           << "a", "n", "n" >>, << << "N", "e", "w", "s" >>, << "T", "e", "c", "h" >> >>, << << "a" >> >>, << Text(<< " ", "S", "h", "o", "r", "t", " " >>) >>,
           << Para(<< " ", "B", "o", "d", "y", " " >>), Img(<< "h", "t", "t", "p", ":", "/", "/", "b", ".", "l", "o", "g", "/", "i", ".", "p", "n", "g" >>, << "p", "i", "c" >>), Heading(2, << "M", "o", "r", "e" >>),
              Text(<< "t", "a", "i", "l" >>) >>, TRUE),
      Item(Missing, << >>, << "p", "a", "g", "e" >>, Missing, << >>, << >>, << >>, << >>, << >>,
           << Heading(1, << "T", "o", "p" >>), Para(<< "x" >>) >>, FALSE),
      Item(<< "E", "m", "p", "t", "y" >>, << >>, Missing, << "d", "r", "a", "f", "t" >>, << >>, << >>, << >>, << >>,
           << Text(<< " ", " " >>) >>, << >>, TRUE),
      Item(<< "R", "u", "l", "e" >>, << >>, << "p", "o", "s", "t" >>, << "p", "u", "b", "l", "i", "s", "h" >>, << >>, << "b", "o", "b" >>, << >>, << << "t" >> >>,
           << Para(<< "W", "h", "y" >>) >>, << Para(<< "-", "-", "-" >>), Img(<< >>, << >>), Para(<< "z" >>) >>, TRUE) }

\* posts whose titles carry markup: a CDATA section, a bare &, an entity
WxrMarkupItems ==
    { Item(t, << >>, << "p", "o", "s", "t" >>, Missing, << >>, << >>, << >>, << >>, << >>,
           << Para(<< "b" >>) >>, TRUE) :
        t \in { << "<", "!", "[", "C", "D", "A", "T", "A", "[", "H", "i", "]", "]", ">" >>, << "A", " ", "&", " ", "B" >>, << "1", " ", "&", "l", "t", ";", " ", "2" >> } }

WxrExports ==
    { WxrExport(NameWxr, "none", w, c, items) :
        w \in BOOLEAN,
        c \in { [ title |-> << "M", "y", " ", "B", "l", "o", "g" >>, link |-> << "h", "t", "t", "p", ":", "/", "/", "b", ".", "l", "o", "g" >> ],
                [ title |-> Missing, link |-> Missing ] },
        items \in SeqsUpTo(WxrItems, MaxPosts) }
    \cup { WxrExport(NameWxr, "none", w, [ title |-> Missing, link |-> Missing ], << i >>) :
              w \in BOOLEAN, i \in WxrMarkupItems }
    \cup { WxrExport(NameWxr, "open", TRUE, [ title |-> Missing, link |-> Missing ], << >>) }

(***************************************************************************)
(* SpecText: one call convert(file, include_metadata) of a parser, no      *)
(* Image Store passed, on a text-level input.                              *)
(***************************************************************************)
CsvFile(name, fails, content) ==
    [ name |-> name, type |-> "csv", fails |-> fails, content |-> content ]

\* n copies of a character
Repeat(c, n) == [ i \in 1..n |-> c ]

MaxRows == 2

NameCsv == << "d", "a", "t", "a", ".", "c", "s", "v" >>

\* header lines: one column, two columns, a name with a pipe, a repeated
\* name with an unnamed column
CsvHeaders == { << "A" >>, << "A", ",", "B" >>, << "a", "|", "b", ",", "c" >>, << "A", ",", "A", "," >> }

\* data lines: numbers, text, a pipe, a backslash before a pipe, missing
\* fields, and bytes outside ASCII (0xE9 alone is Latin-1, 0xC3 0xA9 UTF-8)
CsvRowLines ==
    { << "1" >>, << "1", "2", ",", "2" >>, << "x", ",", "1" >>, << "x", "|", "y", ",", "2" >>, << "\\", "|", "," >>, << "," >>,
      << "x", "xE9" >>, << "xC3", "xA9", ",", "1" >>, << "x81", ",", "x" >> }

FieldCount(line) == Len(Split(line, ","))

\* a cell of k letters, a pipe and m more letters
LongCell(k, m) == Repeat("a", k) \o << "|" >> \o Repeat("b", m)

LongCells ==
    { LongCell(95, 5), LongCell(96, 5), LongCell(97, 5), LongCell(98, 0),
      LongCell(99, 0), Repeat("a", 100), Repeat("a", 101) }

\* n data lines "r1,x", "r2,x", ...
NumberedRows(n) == [ i \in 1..n |-> << "r" >> \o DecStr(i) \o << ",", "x" >> ]

\* the lines of a file that ends with a line feed
WithFinalNewline(lines) == lines \o << << >> >>

CsvContents ==
    UNION { { WithFinalNewline(<< h >> \o rows) :
                rows \in { q \in SeqsUpTo(CsvRowLines, MaxRows) :
                             \A i \in 1..Len(q) : FieldCount(q[i]) <= FieldCount(h) } } :
            h \in CsvHeaders }
    \cup { WithFinalNewline(<< << "A", ",", "B" >>, c \o << ",", "1" >> >>) : c \in LongCells }
    \cup { WithFinalNewline(<< << "A", ",", "B" >> >> \o NumberedRows(n)) :
             n \in { RowLimit - 1, RowLimit, RowLimit + 1, RowLimit + 2 } }
    \cup { << << >> >>, << << >>, << >> >>, << << "A", ",", "B" >> >>, << << "A" >>, << "1" >> >> }

CsvFiles ==
    { CsvFile(NameCsv, "none", c) : c \in CsvContents }
    \cup { CsvFile(NameCsv, "open", << << >> >>) }

TextFiles == CsvFiles \cup TxtFiles \cup DocxDocuments \cup WxrExports

TextCalls ==
    { [ file |-> f, include_metadata |-> m, image_handler |-> NoStore ] :
        f \in TextFiles, m \in BOOLEAN }

InitText ==
    /\ stores = [ s \in StoreIds |-> NewStore ]
    /\ docx = NewDocx
    /\ wxr = NewWxr
    /\ batch \in { << c >> : c \in TextCalls }
    /\ idx = 0
    /\ pc = "loop"
    /\ cursor = 0
    /\ markdown_lines = << >>
    /\ converted_files = << >>
    /\ errors = << >>
    /\ saveLog = << >>
    /\ callLog = << >>
    /\ snapshot = EmptyMap
    /\ lastResult = NoValue
    /\ thr = << >>
    /\ attempted = << >>

textIdle == << stores, docx, wxr, batch, cursor, markdown_lines, saveLog,
               callLog, snapshot, lastResult, thr >>

\* The caller's record of a call that returned or raised: r is what the
\* parser's convert gave.
Outcome(parser, r) ==
    /\ Attempt
    /\ idx' = idx + 1
    /\ pc' = "loop"
    /\ IF r.kind = "raise"
       THEN /\ errors' = Append(errors,
                  [ idx |-> idx + 1, name |-> File.name, parser |-> parser,
                    cause |-> "convert", message |-> r.message, result |-> r ])
            /\ UNCHANGED converted_files
       ELSE /\ converted_files' = Append(converted_files,
                  [ idx |-> idx + 1, name |-> File.name, file_type |-> parser,
                    lines |-> r.lines, result |-> r ])
            /\ UNCHANGED errors

\* converters["csv"].convert(file, include_metadata)
CsvCall ==
    /\ pc = "loop"
    /\ idx < Len(batch)
    /\ File.type = "csv"
    /\ Outcome("csv", CsvConverterConvert(File, Call.include_metadata))
    /\ UNCHANGED textIdle

\* converters["txt"].convert(file, include_metadata)
TxtCall ==
    /\ pc = "loop"
    /\ idx < Len(batch)
    /\ File.type = "txt"
    /\ Outcome("txt", TxtConverterConvert(File, Call.include_metadata))
    /\ UNCHANGED textIdle

\* converters["docx"].convert(file, include_metadata)
DocxCall ==
    /\ pc = "loop"
    /\ idx < Len(batch)
    /\ File.type = "docx"
    /\ Outcome("docx", DocxConverterConvert(File, Call.include_metadata))
    /\ UNCHANGED textIdle

\* converters["wxr"].convert(file, include_metadata), at some moment
WxrCall ==
    /\ pc = "loop"
    /\ idx < Len(batch)
    /\ File.type = "wxr"
    /\ \E now \in Moments :
          Outcome("wxr", WxrConverterConvert(File, Call.include_metadata, now))
    /\ UNCHANGED textIdle

NextText ==
    \/ CsvCall
    \/ TxtCall
    \/ DocxCall
    \/ WxrCall

SpecText == InitText /\ [][NextText]_vars

(***************************************************************************)
(* Claims on the tabular parser (SpecText)                                 *)
(***************************************************************************)
\* the input as the user wrote it: the header line and the data lines
NonBlank(content) == SelectSeq(content, LAMBDA l : l # << >>)
InputColumns(content) == IF NonBlank(content) = << >> THEN 0
                         ELSE FieldCount(NonBlank(content)[1])
InputRows(content) == IF NonBlank(content) = << >> THEN 0
                      ELSE Len(NonBlank(content)) - 1
InputRow(content, k) == NonBlank(content)[k + 1]

\* the calls of the tabular parser that returned, with their input
CsvReturned ==
    { [ r |-> converted_files[i], content |-> batch[converted_files[i].idx].file.content,
        include_metadata |-> batch[converted_files[i].idx].include_metadata ] :
        i \in { j \in 1..Len(converted_files) : converted_files[j].file_type = "csv" } }

IsTableRow(line) == StartsWith(line, << "|", " " >>) /\ EndsWith(line, << " ", "|" >>)

\* a | that delimits columns: one not written as \|
UnescapedPipes(line) ==
    Cardinality({ i \in 1..Len(line) :
                    line[i] = "|" /\ (i = 1 \/ line[i - 1] # "\\") })

\* a data row shows the input line it was made from: when the line's first
\* field is a word of letters and digits with a letter in it, the row
\* starts with that word as its first cell
FirstField(line) == Split(line, ",")[1]
IsPlainWord(s) ==
    /\ s # << >>
    /\ Len(s) <= CellLimit
    /\ \A i \in 1..Len(s) : s[i] \in LowerLetters \cup Range(DigitChars)
    /\ \E i \in 1..Len(s) : s[i] \notin Range(DigitChars)
ShowsLine(row, line) ==
    /\ IsTableRow(row)
    /\ IsPlainWord(FirstField(line)) => StartsWith(row, << "|", " " >> \o FirstField(line) \o << " ", "|" >>)

\* C16: for a header of C columns and N <= 1000 data rows (N = 0 included)
\* the table block is one header row, one separator row of C --- cells and
\* exactly N data rows in input order.
C16_TableShape ==
    \A x \in CsvReturned :
        LET N == InputRows(x.content)
            C == InputColumns(x.content)
            table == x.r.result.table
        IN  (C >= 1 /\ N <= RowLimit) =>
               /\ Len(table) = N + 2
               /\ IsTableRow(table[1])
               /\ table[2] = TableRow([ c \in 1..C |-> << "-", "-", "-" >> ])
               /\ \A k \in 1..N : ShowsLine(table[k + 2], InputRow(x.content, k))

\* C17: a header with at least one column and no data row gives the header
\* row and the separator row with an empty body and no Summary Statistics
\* section; the "no data available" marker appears only for zero columns.
C17_HeaderOnly ==
    \A x \in CsvReturned :
        LET N == InputRows(x.content)
            C == InputColumns(x.content)
            table == x.r.result.table
        IN  /\ (C >= 1 /\ N = 0) =>
                  /\ Len(table) = 2
                  /\ IsTableRow(table[1])
                  /\ table[2] = TableRow([ c \in 1..C |-> << "-", "-", "-" >> ])
                  /\ \A i \in 1..Len(x.r.lines) : x.r.lines[i] # << "#", "#", " ", "S", "u", "m", "m", "a", "r", "y", " ", "S", "t", "a", "t", "i", "s", "t", "i", "c", "s" >>
            /\ (\E i \in 1..Len(x.r.lines) : x.r.lines[i] = << "*", "N", "o", " ", "d", "a", "t", "a", " ", "a", "v", "a", "i", "l", "a", "b", "l", "e", "*" >>)
                  => C = 0

IsFootnote(line) == StartsWith(line, << "*", "N", "o", "t", "e", ":" >>)

\* C18: with N > 1000 data rows the table body is exactly the first 1000
\* rows followed by a footnote that states N; with N <= 1000 every row is
\* rendered and there is no footnote.
C18_Truncation ==
    \A x \in CsvReturned :
        LET N == InputRows(x.content)
            table == x.r.result.table
            rows == { i \in 1..Len(table) : i > 2 /\ IsTableRow(table[i]) }
        IN  IF N > RowLimit
            THEN /\ rows = 3..(RowLimit + 2)
                 /\ \A k \in 1..RowLimit : ShowsLine(table[k + 2], InputRow(x.content, k))
                 /\ Len(table) = RowLimit + 4
                 /\ IsFootnote(table[Len(table)])
                 /\ Contains(table[Len(table)], << " " >> \o DecStr(N) \o << " " >>)
            ELSE /\ \A i \in 1..Len(x.r.lines) : ~IsFootnote(x.r.lines[i])
                 /\ N >= 1 =>
                       /\ rows = 3..(N + 2)
                       /\ Len(table) = N + 2
                       /\ \A k \in 1..N : ShowsLine(table[k + 2], InputRow(x.content, k))

C18_Witness ==
    \E x \in CsvReturned :
        /\ InputRows(x.content) = RowLimit + 1
        /\ IsFootnote(x.r.result.table[RowLimit + 4])

\* C19: every | of a cell value is emitted as \|, also in a cell cut to 100
\* characters, so every rendered row has as many unescaped | as the
\* separator row.
C19_PipesEscaped ==
    \A x \in CsvReturned :
        LET table == x.r.result.table
        IN  \A i \in 1..Len(table) :
               IsTableRow(table[i]) => UnescapedPipes(table[i]) = UnescapedPipes(table[2])

TriedEncodings(tried) == [ k \in 1..Len(tried) |-> tried[k].encoding ]
WhollyEmpty(content) == \A i \in 1..Len(content) : content[i] = << >>

\* the calls of the tabular parser on a readable file that are over
CsvDone ==
    { [ kind |-> "return", idx |-> converted_files[i].idx, result |-> converted_files[i].result ] :
        i \in { j \in 1..Len(converted_files) : converted_files[j].file_type = "csv" } }
    \cup
    { [ kind |-> "raise", idx |-> errors[i].idx, result |-> errors[i].result ] :
        i \in { j \in 1..Len(errors) :
                  errors[j].parser = "csv" /\ batch[errors[j].idx].file.fails = "none" } }

\* C20: convert raises, and returns no empty table, when the input is
\* wholly empty; UTF-8, Latin-1 and the Windows codepage are tried in that
\* order, the first that parses wins, and when none does the call fails.
C20_EncodingTrial ==
    \A d \in CsvDone :
        LET tried == d.result.tried
            n == Len(tried)
        IN  /\ n >= 1
            /\ TriedEncodings(tried) = SubSeq(<< "utf-8", "latin-1", "cp1252" >>, 1, n)
            /\ \A k \in 1..(n - 1) : tried[k].outcome # "ok"
            /\ d.kind = "return" <=> tried[n].outcome = "ok"
            /\ d.kind = "raise" => n = 3
            /\ d.kind = "return" =>
                  /\ Len(d.result.df.columns) >= 1
                  /\ d.result.df.columns[1] =
                        ColumnName(Split(DecodeLine(NonBlank(batch[d.idx].file.content)[1],
                                                    tried[n].encoding).text, ","), 1)
            /\ WhollyEmpty(batch[d.idx].file.content) => d.kind = "raise"

C20_Witness ==
    \E d \in CsvDone :
        /\ WhollyEmpty(batch[d.idx].file.content)
        /\ d.kind = "raise"
        /\ Len(d.result.tried) = 3

(***************************************************************************)
(* Claims about a parser called without an Image Store (Spec)              *)
(***************************************************************************)
WithoutStore(c) == batch[c].image_handler = NoStore

Dashes == << "-", "-", "-" >>

WithMetadata(conv) == batch[conv.idx].include_metadata

DashLines(lines) == { i \in 1..Len(lines) : lines[i] = Dashes }

\* the position of the first --- line after position a, 0 for none
NextDashes(lines, a) ==
    LET later == { i \in DashLines(lines) : i > a }
    IN  IF later = {} THEN 0 ELSE CHOOSE i \in later : \A j \in later : i <= j

\* the metadata blocks of an output: each opens with a --- line that a
\* title line follows, and ends before the next --- line
MetadataBlocks(lines) ==
    { a \in DashLines(lines) :
        a < Len(lines) /\ StartsWith(lines[a + 1], << "t", "i", "t", "l", "e", ":", " " >>) }

IsItemLine(line) == StartsWith(line, << " ", " ", "-", " " >>)

\* the key of a top-level line key: value
KeyOf(line) ==
    LET colons == { i \in 1..Len(line) : line[i] = ":" }
    IN  IF colons = {} THEN line
        ELSE SubSeq(line, 1, (CHOOSE i \in colons : \A j \in colons : i <= j) - 1)

\* C12 as stated: the message of every exception that left a parser's
\* convert holds the name of the file that was being converted.
C12_ErrorsCarryFilename ==
    \A e \in 1..Len(errors) : Contains(errors[e].message, errors[e].name)

BodyDashes(posts) ==
    Cardinality(UNION { { p } \X DashLines(Split(WxrHtmlToMarkdown(posts[p].content), "\n")) :
                          p \in 1..Len(posts) })

C15_MetadataIsMapping ==
    \A c \in 1..Len(converted_files) :
        WithMetadata(converted_files[c]) =>
            LET lines == converted_files[c].lines
            IN  \A a \in MetadataBlocks(lines) :
                    LET b == NextDashes(lines, a)
                        keys == { i \in (a + 1)..(b - 1) : ~IsItemLine(lines[i]) }
                    IN  /\ b > a
                        /\ \A i, j \in keys :
                              KeyOf(lines[i]) = KeyOf(lines[j]) => i = j
                        /\ \A i \in keys :
                              (lines[i][Len(lines[i])] = ":")
                                 <=> (i + 1 < b /\ IsItemLine(lines[i + 1]))
                        /\ a + 1 \in keys

(***************************************************************************)
(* SpecBatch: the loop of app.main over an upload that mixes the four      *)
(* formats.  The loop passes its store to the styled-document and the      *)
(* syndication parser and converts with metadata; the front-matter option  *)
(* of the sidebar is off.                                                  *)
(***************************************************************************)
BatchFiles ==
    SampleFiles
    \cup { CsvFile(NameCsv, "none", << << "A", ",", "B" >>, << "1", ",", "2" >> >>),
           CsvFile(NameCsv, "none", << << >> >>),
           TxtFile(NameTxt, "none", << << "T", "i", "t", "l", "e" >>, << "=", "=", "=", "=", "=" >> >>),
           TxtFile(NameTxt, "open", << << >> >>) }

BatchCalls ==
    { [ file |-> f, include_metadata |-> TRUE, image_handler |-> "storeA" ] :
        f \in BatchFiles }

InitBatch ==
    /\ stores = [ s \in StoreIds |-> NewStore ]
    /\ docx = NewDocx
    /\ wxr = NewWxr
    /\ batch \in SeqsUpTo(BatchCalls, MaxBatch) \ { << >> }
    /\ idx = 0
    /\ pc = "loop"
    /\ cursor = 0
    /\ markdown_lines = << >>
    /\ converted_files = << >>
    /\ errors = << >>
    /\ saveLog = << >>
    /\ callLog = << >>
    /\ snapshot = EmptyMap
    /\ lastResult = NoValue
    /\ thr = << >>
    /\ attempted = << >>

NextBatch ==
    \/ DocxBegin
    \/ DocxExtractImage
    \/ DocxParagraph
    \/ DocxEnd
    \/ WxrBegin
    \/ WxrImage
    \/ WxrEnd
    \/ CsvCall
    \/ TxtCall
    \/ Finish

SpecBatch == InitBatch /\ [][NextBatch]_vars

(***************************************************************************)
(* Claims on the batch loop (SpecBatch)                                    *)
(***************************************************************************)
ErrorsOf(i) == { e \in 1..Len(errors) : errors[e].idx = i }
ConvertedOf(i) == { c \in 1..Len(converted_files) : converted_files[c].idx = i }

\* C11: the loop begins the conversion of every file of the batch once,
\* in the given order, whatever the conversions before it raised; each
\* file whose conversion is over has either one error or one entry in
\* the list of converted files, under its name and in batch order, never
\* both; a readable styled document, export or text file is converted;
\* and the loop ends only when every file has been attempted.
C11_ErrorsDoNotStopBatch ==
    /\ Len(attempted) = (IF pc \in { "loop", "done" } THEN idx ELSE idx + 1)
    /\ \A i \in 1..Len(attempted) :
          attempted[i].idx = i /\ attempted[i].name = batch[i].file.name
    /\ \A i \in 1..idx :
          /\ Cardinality(ErrorsOf(i)) + Cardinality(ConvertedOf(i)) = 1
          /\ (batch[i].file.fails = "none" /\ batch[i].file.type # "csv") => ConvertedOf(i) # {}
    /\ \A c \in 1..Len(converted_files) :
          /\ converted_files[c].name = batch[converted_files[c].idx].file.name
          /\ \A b \in 1..(c - 1) : converted_files[b].idx < converted_files[c].idx
    /\ pc = "done" => (idx = Len(batch) /\ Len(attempted) = Len(batch))

\* The batch is over; the conversion of its first file raised and its
\* second file is in the list of converted files.
C11_Witness ==
    /\ pc = "done"
    /\ Len(batch) >= 2
    /\ ErrorsOf(1) # {}
    /\ ConvertedOf(2) # {}

(***************************************************************************)
(* Claims on the plain-text parser (SpecText)                              *)
(***************************************************************************)
\* the calls of the plain-text parser that returned
TxtReturned == { c \in 1..Len(converted_files) : converted_files[c].file_type = "txt" }

TxtInput(c) == batch[converted_files[c].idx].file.content

\* C21: convert of the plain-text parser raises for no readable file,
\* whatever its bytes (none at all included): it returns the lines of a
\* string, decoded by the first encoding of utf-8, latin-1, cp1252, ascii
\* under which the bytes decode, and by UTF-8 with substitution only when
\* none of them decodes.
C21_EncodingNeverFails ==
    /\ \A e \in 1..Len(errors) :
          errors[e].parser = "txt" => batch[errors[e].idx].file.fails = "open"
    /\ \A i \in 1..idx :
          (batch[i].file.type = "txt" /\ batch[i].file.fails = "none") =>
              \E c \in TxtReturned : converted_files[c].idx = i
    /\ \A c \in TxtReturned :
          LET r == converted_files[c].result
              decodes(k) == Decode(TxtInput(c), TxtEncodings[k]).ok
          IN  /\ Len(r.text) = Len(TxtInput(c))
              /\ \A k \in 1..Len(TxtEncodings) :
                    (decodes(k) /\ \A j \in 1..(k - 1) : ~decodes(j)) =>
                        /\ r.encoding = TxtEncodings[k]
                        /\ r.text = Decode(TxtInput(c), TxtEncodings[k]).text
              /\ r.encoding = "utf-8-replace" =>
                    \A k \in 1..Len(TxtEncodings) : ~decodes(k)

\* The parser has returned for bytes that are no UTF-8 and were decoded by
\* the second encoding of the list.
C21_Witness ==
    \E c \in TxtReturned :
        /\ TxtInput(c) = << << "x81", "xE9" >>, << "xC3" >> >>
        /\ converted_files[c].result.encoding = "latin-1"
        /\ converted_files[c].result.text = << << "U+0081", "U+00E9" >>, << "U+00C3" >> >>

\* the calls of the plain-text parser that returned the body alone
TxtBodies ==
    { c \in TxtReturned : ~batch[converted_files[c].idx].include_metadata }

\* line i + 1 of a text is an underline of the character ch for line i
Underlines(text, i, ch) ==
    /\ i < Len(text)
    /\ Strip(text[i]) # << >>
    /\ AllOf(Strip(text[i + 1]), { ch })
    /\ 10 * Len(Strip(text[i + 1])) >= 7 * Len(Strip(text[i]))

\* a line of = or of - alone, bare or behind a heading marker
UnderlineForm(line) ==
    \/ AllOf(Strip(line), { "=", "-" })
    \/ \E k \in 1..6 :
          /\ Len(line) > k + 1
          /\ AllOf(SubSeq(line, 1, k), { "#" })
          /\ line[k + 1] = " "
          /\ AllOf(Strip(SubSeq(line, k + 2, Len(line))), { "=", "-" })

\* C22: a non-blank line with a line of = alone under it, at least 70% as
\* long, comes out as a first-level heading (of - alone: second-level),
\* and no underline line comes out in any form, also when several
\* underline lines follow each other.
C22_UnderlineHeadings ==
    \A c \in TxtBodies :
        LET text == converted_files[c].result.text
            out == converted_files[c].lines
        IN  /\ \A i \in 1..Len(text) :
                  /\ Underlines(text, i, "=") =>
                        \E k \in 1..Len(out) : out[k] = << "#", " " >> \o Strip(text[i])
                  /\ Underlines(text, i, "-") =>
                        \E k \in 1..Len(out) : out[k] = << "#", "#", " " >> \o Strip(text[i])
            /\ \A k \in 1..Len(out) : ~UnderlineForm(out[k])

\* C22 for files where no underline line has an underline of its own
C22_SingleUnderlines ==
    \A c \in TxtBodies :
        LET text == converted_files[c].result.text
            out == converted_files[c].lines
        IN  (\A i \in 1..Len(text) : \A ch \in { "=", "-" } :
                Underlines(text, i, ch) => ~AllOf(Strip(text[i]), { "=", "-" }))
            => /\ \A i \in 1..Len(text) :
                      /\ Underlines(text, i, "=") =>
                            \E k \in 1..Len(out) : out[k] = << "#", " " >> \o Strip(text[i])
                      /\ Underlines(text, i, "-") =>
                            \E k \in 1..Len(out) : out[k] = << "#", "#", " " >> \o Strip(text[i])
               /\ \A k \in 1..Len(out) : ~UnderlineForm(out[k])

\* lines a..b of a text are a maximal run of indented lines
IndentedRun(text, a, b) ==
    /\ a <= b
    /\ \A i \in a..b : Indented(text[i])
    /\ a = 1 \/ ~Indented(text[a - 1])
    /\ b = Len(text) \/ ~Indented(text[b + 1])

IndentedRuns(text) ==
    { r \in (1..Len(text)) \X (1..Len(text)) : IndentedRun(text, r[1], r[2]) }

FenceLines(out) == { k \in 1..Len(out) : out[k] = Fence }

\* C26: every maximal run of lines indented by four spaces or a tab comes
\* out between one opening fence before its first line and one closing
\* fence after its last line, whatever its length (one line included) and
\* whatever the indented lines hold, so fences are always balanced.
C26_FencedRuns ==
    \A c \in TxtBodies :
        LET text == converted_files[c].result.text
            out == converted_files[c].lines
        IN  /\ \A r \in IndentedRuns(text) :
                  \E k \in 1..Len(out) :
                      /\ k + (r[2] - r[1]) + 2 <= Len(out)
                      /\ SubSeq(out, k, k + (r[2] - r[1]) + 2) =
                            << Fence >> \o SubSeq(text, r[1], r[2]) \o << Fence >>
            /\ Cardinality(FenceLines(out)) = 2 * Cardinality(IndentedRuns(text))

\* the rule of _process_line that takes a non-blank line ahead of the
\* indentation check, or none
EarlierRule(text, i) ==
    LET s == Strip(text[i])
    IN  IF Underlines(text, i, "=") THEN "h1"
        ELSE IF Underlines(text, i, "-") THEN "h2"
        ELSE IF AllOf(s, { "=", "-" }) THEN "skip"
        ELSE IF s[1] \in Range(DigitChars) /\ \E d \in 2..(Len(s) - 1) :
                  /\ \A j \in 1..(d - 1) : s[j] \in Range(DigitChars)
                  /\ s[d] = "."
                  /\ s[d + 1] \in Whitespace
        THEN "list"
        ELSE IF Len(s) >= 2 /\ s[1] \in { "-", "*", "+" } /\ s[2] \in Whitespace
        THEN "list"
        ELSE IF /\ \E j \in 1..Len(s) : s[j] \in Range(UpperChars)
                /\ \A j \in 1..Len(s) : s[j] \notin Range(LowerChars)
                /\ Len(s) < 80
                /\ WordCount(s) <= 10
                /\ s[Len(s)] \notin { ".", "!", "?" }
        THEN "caps"
        ELSE "none"

\* the indented, non-blank lines of a text
IndentedLines(text) ==
    { i \in 1..Len(text) : Indented(text[i]) /\ Strip(text[i]) # << >> }

\* C28: the underline-heading, list and capitals checks come before the
\* indentation check: an indented short line in capitals comes out as a
\* title-cased second-level heading, an indented list line as its stripped
\* list line, an indented line with an underline below as a heading, and
\* none of them as a code line (a line that occurs once in the file does
\* not come out as it stands).
C28_RulePriority ==
    \A c \in TxtBodies :
        LET text == converted_files[c].result.text
            out == converted_files[c].lines
            has(line) == \E k \in 1..Len(out) : out[k] = line
        IN  \A i \in IndentedLines(text) :
                LET rule == EarlierRule(text, i)
                IN  /\ rule = "h1" => has(<< "#", " " >> \o Strip(text[i]))
                    /\ rule = "h2" => has(<< "#", "#", " " >> \o Strip(text[i]))
                    /\ rule = "list" => has(Strip(text[i]))
                    /\ rule = "caps" => has(<< "#", "#", " " >> \o Title(Strip(text[i])))
                    /\ (rule # "none" /\ \A j \in 1..Len(text) : text[j] = text[i] => j = i)
                          => ~has(text[i])

\* The parser has returned for a file of indented lines in capitals and
\* indented list lines, and each came out by its own rule.
C28_Witness ==
    \E c \in TxtBodies :
        /\ converted_files[c].result.text =
              << << " ", " ", " ", " ", "N", "E", "W", " ", "P", "L", "A", "N" >>, << " ", " ", " ", " ", "-", " ", "i", "t", "e", "m" >>, << "\t", "T", "O", "P" >>, << "=", "=", "=", "=" >>, << " ", " ", " ", " ", "2", ".", " ", "t", "w", "o" >> >>
        /\ converted_files[c].lines =
              << << "#", "#", " ", "N", "e", "w", " ", "P", "l", "a", "n" >>, << "-", " ", "i", "t", "e", "m" >>, << "#", " ", "T", "O", "P" >>, << "2", ".", " ", "t", "w", "o" >> >>

(***************************************************************************)
(* Claims on the styled-document parser's paragraphs (SpecText)            *)
(***************************************************************************)
DocxReturned == { c \in 1..Len(converted_files) : converted_files[c].file_type = "docx" }

ParagraphText(p) == Strip(Join([ i \in 1..Len(p.runs) |-> p.runs[i].text ], << >>))

IsHeading(p) == Contains(Lower(p.style), << "h", "e", "a", "d", "i", "n", "g" >>)

\* line is something between the opening and the closing tag
WrappedIn(line, open, close) ==
    /\ Len(line) > Len(open) + Len(close)
    /\ StartsWith(line, open)
    /\ EndsWith(line, close)

\* C27: a paragraph that is no heading and is centred comes out wrapped in
\* a centre element, a right-aligned one in a right-aligned block, also
\* when its runs carry text or inline formatting; a heading comes out as
\* its heading line, never wrapped.
C27_AlignmentWrapped ==
    \A c \in DocxReturned :
        LET ps == batch[converted_files[c].idx].file.paragraphs
            out == converted_files[c].lines
        IN  \A i \in 1..Len(ps) :
                ParagraphText(ps[i]) # << >> =>
                    /\ (~IsHeading(ps[i]) /\ ps[i].alignment = "CENTER") =>
                          \E k \in 1..Len(out) :
                              /\ WrappedIn(out[k], << "<", "c", "e", "n", "t", "e", "r", ">" >>, << "<", "/", "c", "e", "n", "t", "e", "r", ">" >>)
                              /\ Contains(out[k], ps[i].runs[1].text)
                    /\ (~IsHeading(ps[i]) /\ ps[i].alignment = "RIGHT") =>
                          \E k \in 1..Len(out) :
                              /\ WrappedIn(out[k], << "<", "d", "i", "v", " ", "a", "l", "i", "g", "n", "=", "'", "r", "i", "g", "h", "t", "'", ">" >>, << "<", "/", "d", "i", "v", ">" >>)
                              /\ Contains(out[k], ps[i].runs[1].text)
                    /\ IsHeading(ps[i]) =>
                          \E k \in 1..Len(out) : \E l \in 1..6 :
                              out[k] = [ j \in 1..l |-> "#" ] \o << " " >> \o ParagraphText(ps[i])

(***************************************************************************)
(* Claims on the syndication parser's fallback (SpecText)                  *)
(***************************************************************************)
WxrReturned == { c \in 1..Len(converted_files) : converted_files[c].file_type = "wxr" }

\* the items of a file that have a title and a non-empty body in a CDATA
\* section
TitledItems(file) ==
    SelectSeq(file.items,
              LAMBDA item : item.title # Missing /\ item.cdata /\ item.content # << >>)

\* the first-level headings of the output that are no heading of a body
PostHeadings(file, out) ==
    SelectSeq(out, LAMBDA line :
        /\ StartsWith(line, << "#", " " >>)
        /\ \A i \in 1..Len(file.items) : \A e \in 1..Len(file.items[i].content) :
              (file.items[i].content[e].tag = "h" /\ file.items[i].content[e].level = 1) =>
                  line # << "#", " " >> \o Strip(file.items[i].content[e].text))

\* C23: convert raises for no export that is not well-formed XML: the
\* fallback reads the text, each item block with a title and a non-empty
\* body in a CDATA section gives one post section whose first-level
\* heading is that title and whose body is present, and a text without
\* items gives a string without a post section.
C23_FallbackPosts ==
    /\ \A e \in 1..Len(errors) :
          errors[e].parser = "wxr" => batch[errors[e].idx].file.fails = "open"
    /\ \A c \in WxrReturned :
          LET file == batch[converted_files[c].idx].file
              posts == converted_files[c].result.posts
              titled == TitledItems(file)
              untitled == SelectSeq(file.items, LAMBDA item :
                              item.title = Missing /\ item.cdata /\ item.content # << >>)
              own(k) == SelectSeq(posts, LAMBDA post :
                              post.title = WxrExtractPostData(titled[k]).title)
          IN  ~file.wellformed =>
                  /\ Len(posts) = Len(titled) + Len(untitled)
                  /\ file.items = << >> => PostHeadings(file, converted_files[c].lines) = << >>
                  /\ \A k \in 1..Len(titled) :
                        /\ own(k) # << >>
                        /\ \A j \in 1..Len(own(k)) : own(k)[j].content = titled[k].content
                        /\ \E l \in 1..Len(converted_files[c].lines) :
                              converted_files[c].lines[l] =
                                  << "#", " " >> \o WxrExtractPostData(titled[k]).title

\* C23 for the files whose titles are plain text: no CDATA section, no &
C23_PlainTitles ==
    \A c \in WxrReturned :
        LET file == batch[converted_files[c].idx].file
            titled == TitledItems(file)
        IN  (~file.wellformed /\ \A k \in 1..Len(titled) :
                                    /\ ~Contains(titled[k].title, << "&" >>)
                                    /\ ~Contains(titled[k].title, << "<" >>))
            => /\ Len(converted_files[c].result.posts) >= Len(titled)
               /\ \A k \in 1..Len(titled) :
                     \E l \in 1..Len(converted_files[c].lines) :
                         converted_files[c].lines[l] = << "#", " " >> \o titled[k].title

(***************************************************************************)
(* Claims on optimize_image (SpecStore)                                    *)
(***************************************************************************)
\* the last call of the handler was optimize_image
Optimized(result) == result.kind = "value" /\ "input" \in DOMAIN result

\* C24: optimize never raises: for bytes that cannot be decoded or
\* re-encoded it returns the same bytes with the extension png, and no
\* call of optimize changes the state of the Image Store.
C24_OptimizeNeverRaises ==
    /\ [](Optimized(lastResult) =>
            /\ lastResult.ext \in { ExtJpg, ExtPng }
            /\ ~Loadable(lastResult.input) =>
                  lastResult.data = lastResult.input /\ lastResult.ext = ExtPng)
    /\ [][(lastResult' # lastResult /\ Optimized(lastResult')) =>
              stores' = stores /\ saveLog' = saveLog]_vars

\* optimize has returned for bytes that are no image, and for an image
\* whose pixels cannot be read, with a store that holds an image.
C24_Witness ==
    /\ Optimized(lastResult)
    /\ lastResult.input \in { "rawB", "rawX" }
    /\ lastResult.data = lastResult.input
    /\ stores["storeA"].image_counter >= 1

HasAlpha(mode) == mode \in { "RGBA", "LA", "PA", "RGBa", "La" }

\* a picture blended onto white by its alpha, the last channel
OnWhite(img) ==
    LET alpha == img.pixel[Len(img.pixel)]
        blended(channel) == (255 * (255 - alpha) + channel * alpha + 127) \div 255
    IN  [ i \in 1..(Len(img.pixel) - 1) |-> blended(img.pixel[i]) ]

\* the colour of a picture without alpha, as three channels
Colour(img) ==
    IF Len(img.pixel) = 1 THEN << img.pixel[1], img.pixel[1], img.pixel[1] >> ELSE img.pixel

\* C25: for every image that can be decoded, optimize blends a picture
\* with an alpha channel onto opaque white (the alpha is not just left
\* out), and writes JPEG with the extension jpg whenever the result has no
\* alpha channel, PNG otherwise.
C25_AlphaFlattened ==
    (Optimized(lastResult) /\ Loadable(lastResult.input)) =>
        LET given == OpenImage(lastResult.input)
            result == OpenImage(lastResult.data)
        IN  /\ HasAlpha(given.mode) =>
                  /\ ~HasAlpha(result.mode)
                  /\ Colour(result) = Colour([ pixel |-> OnWhite(given) ])
            /\ IF HasAlpha(result.mode)
               THEN ImageFormat(lastResult.data) = "PNG" /\ lastResult.ext = ExtPng
               ELSE ImageFormat(lastResult.data) = "JPEG" /\ lastResult.ext = ExtJpg

\* C25 for the modes RGB and RGBA
C25_RgbaFlattened ==
    (Optimized(lastResult) /\ Loadable(lastResult.input)
       /\ ImageMode(lastResult.input) \in { "RGB", "RGBA" }) =>
        LET given == OpenImage(lastResult.input)
            result == OpenImage(lastResult.data)
        IN  /\ result.mode = "RGB"
            /\ HasAlpha(given.mode) => result.pixel = OnWhite(given)
            /\ ImageFormat(lastResult.data) = "JPEG" /\ lastResult.ext = ExtJpg

(***************************************************************************)
(* Claims on the state of one Image Store (SpecStore)                      *)
(***************************************************************************)
\* C30: whatever the sequence of save, optimize, download, list_images and
\* reset calls, the map of filenames and the map of bytes have the same
\* hashes as keys and the counter is the number of stored images; a save
\* whose hash is already stored changes nothing, and reset leaves both
\* maps empty and the counter at 0.
C30_StoreInvariant ==
    /\ [](/\ DOMAIN stores["storeA"].images = DOMAIN stores["storeA"].image_data
          /\ stores["storeA"].image_counter = Cardinality(DOMAIN stores["storeA"].images))
    /\ [][/\ (/\ Len(saveLog') = Len(saveLog) + 1
              /\ Md5Hex8(saveLog'[Len(saveLog')].data) \in DOMAIN stores["storeA"].images)
             => stores' = stores
          /\ Len(saveLog') < Len(saveLog)
             => /\ DOMAIN stores'["storeA"].images = {}
                /\ DOMAIN stores'["storeA"].image_data = {}
                /\ stores'["storeA"].image_counter = 0]_vars

\* One image is stored, a later save met its hash and left the counter at
\* 1, and list_images has been called.
C30_Witness ==
    /\ Len(saveLog) = MaxSaves
    /\ saveLog[1].fresh
    /\ ~saveLog[MaxSaves].fresh
    /\ stores["storeA"].image_counter = 1
    /\ snapshot # EmptyMap

(***************************************************************************)
(* Claims on the images of a styled document (Spec)                        *)
(***************************************************************************)
\* the embedded image relationships of a document
EmbeddedImages(file) ==
    { k \in 1..Len(file.rels) : file.rels[k].is_image /\ ~file.rels[k].external }

CallsFor(op, rId) ==
    { k \in 1..Len(callLog) : callLog[k].op = op /\ callLog[k].ref = rId }

\* the image references of the paragraphs rendered so far
RenderedRefs ==
    Join([ p \in 1..(cursor - 1) |-> File.paras[p] ], << >>)

\* C29: with an Image Store supplied, each embedded image relationship of
\* the document has been optimized once and saved once when the first
\* paragraph is rendered; the image lines are then those of the
\* relationship IDs of each paragraph that are in the map, in the
\* paragraphs' order, and relationships with the same bytes have the same
\* filename.
C29_ImagesBeforeBody ==
    /\ pc = "docx_rels" => markdown_lines = << >>
    /\ (pc = "docx_paras" /\ docx.image_handler # NoStore) =>
          /\ \A k \in EmbeddedImages(File) :
                /\ Cardinality(CallsFor("optimize", File.rels[k].rId)) = 1
                /\ Cardinality(CallsFor("save", File.rels[k].rId)) = 1
                /\ File.rels[k].rId \in DOMAIN docx.extracted_images
          /\ [ i \in 1..Len(markdown_lines) |-> markdown_lines[i].ref ] =
                SelectSeq(RenderedRefs, LAMBDA r : r \in DOMAIN docx.extracted_images)
          /\ \A i \in 1..Len(markdown_lines) :
                markdown_lines[i].text =
                    AssetsDir \o docx.extracted_images[markdown_lines[i].ref].filename
          /\ \A k1, k2 \in EmbeddedImages(File) :
                (/\ File.rels[k1].blob = File.rels[k2].blob
                 /\ File.rels[k1].rId \in DOMAIN docx.extracted_images
                 /\ File.rels[k2].rId \in DOMAIN docx.extracted_images) =>
                    docx.extracted_images[File.rels[k1].rId].filename =
                        docx.extracted_images[File.rels[k2].rId].filename

\* C29 for the documents whose image relationships are all embedded
C29_AllEmbedded ==
    (/\ pc \in { "docx_rels", "docx_paras" }
     /\ \A k \in 1..Len(File.rels) : ~File.rels[k].external) => C29_ImagesBeforeBody

====
